---------------------------- MODULE Spec2Model ----------------------------
(***************************************************************************)
(* taskflow: Task (run-once memoised unit of work with dependencies) and   *)
(* Runner (one concurrent worker per top-level Executable).                *)
(*                                                                         *)
(* Goroutines are threads with a call stack of Task.Run frames.  A frame   *)
(* is at "call" (about to enter t.once.Do), "blocked" (waiting in          *)
(* t.once.Do for the goroutine that runs the closure), "walk" (inside the  *)
(* guard, walking t.Depends), "fn" (t.Fn is running) or "ret" (t.once.Do   *)
(* has returned, about to read t.Result, t.Err and return them).           *)
(***************************************************************************)
EXTENDS Integers, Sequences, FiniteSets, TLC

\* ------------------------------------------------------------ bounds
\* goroutines that may be in flight: Runner workers, or direct callers
NThreads == 2
\* direct calls of Task.Run issued in one behaviour of SpecCall
MaxCalls == 2
\* payloads of values range over 0..ValMod-1
ValMod == 4
\* calls of Runner.Run made in one behaviour of SpecRerun
MaxRuns == 2
\* sub-operations Generate returns at most
MaxFns == 3
\* direct calls of Run made on the Tasks of ToTask at most
MaxFanCalls == 3
\* calls of After made on the tasks of a graph at most
MaxAfter == 2
\* the argument `retries` of Retry ranges over 0..MaxRetries
MaxRetries == 2
\* time.Duration is an int64 count of nanoseconds
DurationBits == 64

Threads == 1..NThreads

\* ------------------------------------------------------------ values
\* A value of Go's `any`: nil, or a dynamic type with a payload.
Nil == [ty |-> "nil", v |-> 0]

Val(ty, v) == [ty |-> ty, v |-> v]

\* var in In / var zeroOut Out: the zero value of a type parameter
Zero(ty) == IF ty = "any" THEN Nil ELSE Val(ty, 0)

\* error values: nil, the error a task's Fn returns, the mismatch error
NoErr == [kind |-> "nil", task |-> 0, exp |-> "", got |-> ""]

FnErr(t) == [kind |-> "fn", task |-> t, exp |-> "", got |-> ""]

MismatchErr(t, exp, got) == [kind |-> "mismatch", task |-> t, exp |-> exp, got |-> got]

\* the inputs a direct caller passes to Task.Run
Inputs == {Nil, Val("str", 1)}

\* ------------------------------------------------------------ task graphs
\* Graphs of four tasks built with NewTask(...).After(...), with the type
\* parameters [In, Out] of each task.
Independent ==
    [Depends |-> << <<>>, <<>>, <<>>, <<>> >>,
     In      |-> << "any", "int", "str", "any" >>,
     Out     |-> << "int", "int", "str", "any" >>]

\* main.After(d1, d2, d3), every edge well typed
Walk3 ==
    [Depends |-> << <<>>, <<>>, <<>>, <<1, 2, 3>> >>,
     In      |-> << "any", "int", "int", "int" >>,
     Out     |-> << "int", "int", "int", "int" >>]

\* main.After(d1, d2, d3): d1 hands its input on, d3 yields a string that
\* main (In = int) cannot take
Walk3Typed ==
    [Depends |-> << <<>>, <<>>, <<>>, <<1, 2, 3>> >>,
     In      |-> << "any", "int", "int", "int" >>,
     Out     |-> << "any", "int", "str", "int" >>]

\* two tasks share a dependency; a fourth task depends on both
Shared ==
    [Depends |-> << <<>>, <<1>>, <<1>>, <<2, 3>> >>,
     In      |-> << "any", "str", "str", "int" >>,
     Out     |-> << "str", "str", "int", "int" >>]

\* task3.After(task1, task2), taskError on its own
Example ==
    [Depends |-> << <<>>, <<>>, <<1, 2>>, <<>> >>,
     In      |-> << "any", "any", "any", "any" >>,
     Out     |-> << "str", "str", "str", "any" >>]

\* a chain of single dependencies, as the pipeline of the orchestrator
\* example: the first two tasks hand their input on
Chain ==
    [Depends |-> << <<>>, <<1>>, <<2>>, <<3>> >>,
     In      |-> << "any", "int", "any", "int" >>,
     Out     |-> << "any", "any", "int", "int" >>]

Graphs == {Independent, Walk3, Walk3Typed, Shared, Example, Chain}

TaskIds == DOMAIN Independent.Depends

\* t.After(t): a task lists itself; two more tasks share a dependency, one
\* of them (In = int) cannot take the string it yields
SelfLoop ==
    [Depends |-> << <<1>>, <<>>, <<2>>, <<2>> >>,
     In      |-> << "any", "any", "int", "str" >>,
     Out     |-> << "int", "str", "int", "int" >>]

\* a.After(b); b.After(a): a task lists itself through another task, and a
\* fourth task depends on the cycle without being on it
Ring ==
    [Depends |-> << <<2>>, <<1>>, <<>>, <<1>> >>,
     In      |-> << "any", "any", "any", "any" >>,
     Out     |-> << "int", "int", "int", "int" >>]

\* a.After(c, b); b.After(a): the walk of a calls c before it closes the cycle
Guarded ==
    [Depends |-> << <<3, 2>>, <<1>>, <<>>, <<>> >>,
     In      |-> << "any", "any", "any", "any" >>,
     Out     |-> << "int", "int", "int", "int" >>]

CycleGraphs == {SelfLoop, Ring, Guarded}

\* ------------------------------------------------------------ state
VARIABLES
    \* Task fields
    Depends,    \* Task.Depends, per task
    In,         \* type parameter In, per task
    Out,        \* type parameter Out, per task
    Result,     \* Task.Result
    Err,        \* Task.Err
    once,       \* Task.once: "new", "running" (f is executing), "done"
    \* goroutines
    stack,      \* per thread, the stack of Task.Run frames
    \* Runner
    Tasks,      \* Runner.Tasks
    rpc,        \* Runner.Run: "build" (not called), "wait" (wg.Wait), "returned"
    wg,         \* sync.WaitGroup counter of Runner.Run
    errors,     \* the buffered channel `errors` of Runner.Run
    rret,       \* the error Runner.Run returned
    nruns,      \* calls of Runner.Run made so far
    \* direct callers
    ncalls,     \* direct calls of Task.Run issued so far
    \* observation: what counting stubs and recording test doubles would see
    obs,
    \* the Task of FanOutTask.ToTask and one run of its function
    fan,
    \* one call of Retry
    rt,
    \* the context.Context handed to every call: done or not, and its Err()
    ctx,
    \* the calls of After made so far, in order: receiver, arguments and
    \* the Task returned
    afters,
    \* per Task returned by FanOutTask.ToTask, the calls its function made
    ft,
    \* per task, how its user function Fn decides to fail: "any" (on grounds
    \* of its own, call by call), or as a function of its input: "never",
    \* "always", "odd" (on an input of odd payload)
    user

\* obs.fnArgs[t]     the arguments Fn was invoked with, in order
\* obs.fnRets[t]     the (Out, error) pairs Fn returned, in order
\* obs.walks[t]      how many times the dependency walk was started
\* obs.waits[t]      how many calls had to wait in the guard of t
\* obs.writes[t]     how many times the outcome (Result, Err) was written
\* obs.depCalls[t]   the dep.Run calls the walk of t made, in order
\* obs.returned[t]   the set of (result, err) pairs Run calls on t returned
\* obs.execInput[t]  the input of each call that ran inside the guard
\* obs.callInputs[t] the inputs of the calls of Run made on t
\* obs.topRets[th]   what the top-level Run call of Runner worker th returned
\* obs.logs[t]       the errors t.Logger.Log was called about, each with the
\*                   state of the guard of t at the time of the call

cfgVars == <<Depends, In, Out>>

taskVars == <<Depends, In, Out, Result, Err, once>>

runnerVars == <<Tasks, rpc, wg, errors, rret, nruns>>

\* everything but the state of the fan-out
coreVars == <<taskVars, stack, runnerVars, ncalls, obs>>

\* the calls of After made while the graph was built, and the calls made by
\* the functions of the Tasks of ToTask; the user functions of the tasks
restVars == <<afters, ft, user>>

\* the state of Retry, of the context and of the graph construction
auxVars == <<rt, ctx, restVars>>

vars == <<coreVars, fan, auxVars>>

\* ------------------------------------------------------------ frames
Frame(t, x) == [task |-> t, pc |-> "call", input |-> x, i |-> 0, cur |-> Nil]

Top(th) == stack[th][Len(stack[th])]

HasFrame(th) == Len(stack[th]) > 0

SetTop(th, f) == [stack EXCEPT ![th] = [@ EXCEPT ![Len(@)] = f]]

Pop(s) == SubSeq(s, 1, Len(s) - 1)

\* ------------------------------------------------------------ Task.Run
\* an assertion that accepts every value
AssertsAnything(ty, x) == TRUE

\* typedInput, ok := currInput.(In): the assertion holds for every non-nil
\* value when In is the empty interface, else for values of dynamic type In
Asserts(ty, x) == ty = "any" \/ x.ty = ty

\* the assertion without the nil check before it: currInput.(In) fails on
\* a nil interface value
InputAsserted(ty, x) == x # Nil /\ Asserts(ty, x)

\* currInput reaches Fn: it is nil, or the type assertion succeeds
InputAccepted(ty, x) == x = Nil \/ Asserts(ty, x)

\* a closure that hands Fn the zero value of In whatever currInput is
TypedInputZero(ty, x) == Zero(ty)

\* the value `in` handed to Fn: the asserted input, or the zero value of In
\* when currInput is nil
TypedInput(ty, x) == IF x # Nil THEN x ELSE Zero(ty)

\* the value a successful Fn of task t computes from its typed input: a task
\* with Out = any hands its input on, the others build a new value of Out
FnValue(t, x) ==
    IF Out[t] = "any" THEN x ELSE Val(Out[t], (x.v + 1) % ValMod)

\* t.Fn(ctx, in): the (Out, error) pair the user function returns; whether it
\* fails is the user function's own affair (ok), as in the orchestrator
\* example, whose process step fails on even seconds
Fn(t, x, ok) ==
    IF ok
    THEN [res |-> FnValue(t, x), err |-> NoErr]
    ELSE [res |-> Zero(Out[t]), err |-> FnErr(t)]

\* a guard that sets its flag before it calls f: a call that arrives while
\* f is running returns at once
OnceCompletedEarly(t) == once[t] # "new"

\* a guard that lets a call made from inside its own closure return at once
OnceCompletedReentrant(t) == once[t] \in {"running", "done"}

\* sync.Once.Do returns without calling f only when an earlier call of f
\* has returned
OnceCompleted(t) == once[t] = "done"

\* a guard that memoises successes only: a failed outcome is run again
OnceFreshOrFailed(t) == once[t] = "new" \/ (once[t] = "done" /\ Err[t] # NoErr)

\* a guard that tests only the done flag, without the mutex: a call that
\* arrives while f is running runs f again
OnceFreshRacy(t) == once[t] # "done"

\* sync.Once.Do calls f when no call of Do has started f yet
OnceFresh(t) == once[t] = "new"

\* sync.Once.Do makes its caller wait while another call is running f
OnceRunning(t) == once[t] = "running"

\* a walk that starts from nil instead of the caller's input
InitialInputNil(f) == Nil

\* var currInput any = input
InitialInput(f) == f.input

\* a Run without the guard: every call runs the closure
OnceEnterUnguarded(th) ==
    /\ HasFrame(th)
    /\ Top(th).pc = "call"
    /\ LET t == Top(th).task IN
        /\ once' = [once EXCEPT ![t] = "running"]
        /\ stack' = SetTop(th, [Top(th) EXCEPT !.pc = "walk", !.i = 1,
                                                !.cur = InitialInput(Top(th))])
        /\ obs' = [obs EXCEPT !.walks[t] = @ + 1,
                              !.execInput[t] = Append(@, Top(th).input)]
    /\ UNCHANGED <<cfgVars, Result, Err, runnerVars, ncalls, fan, auxVars>>

\* t.once.Do(func() {...}) on a fresh guard: this goroutine runs the closure;
\* var currInput any = input
OnceEnter(th) ==
    /\ HasFrame(th)
    /\ Top(th).pc = "call"
    /\ OnceFresh(Top(th).task)
    /\ LET t == Top(th).task IN
        /\ once' = [once EXCEPT ![t] = "running"]
        /\ stack' = SetTop(th, [Top(th) EXCEPT !.pc = "walk", !.i = 1,
                                                !.cur = InitialInput(Top(th))])
        /\ obs' = [obs EXCEPT !.walks[t] = @ + 1,
                              !.execInput[t] = Append(@, Top(th).input)]
    /\ UNCHANGED <<cfgVars, Result, Err, runnerVars, ncalls, fan, auxVars>>

\* t.once.Do on a completed guard returns at once, without calling f
OnceSkip(th) ==
    /\ HasFrame(th)
    /\ Top(th).pc = "call"
    /\ OnceCompleted(Top(th).task)
    /\ stack' = SetTop(th, [Top(th) EXCEPT !.pc = "ret"])
    /\ UNCHANGED <<taskVars, runnerVars, ncalls, obs, fan, auxVars>>

\* t.once.Do while another goroutine runs the closure: the caller waits
OnceWait(th) ==
    /\ HasFrame(th)
    /\ Top(th).pc = "call"
    /\ OnceRunning(Top(th).task)
    /\ stack' = SetTop(th, [Top(th) EXCEPT !.pc = "blocked"])
    /\ obs' = [obs EXCEPT !.waits[Top(th).task] = @ + 1]
    /\ UNCHANGED <<taskVars, runnerVars, ncalls, fan, auxVars>>

\* the closure has returned: the waiting t.once.Do returns without calling f
OnceWake(th) ==
    /\ HasFrame(th)
    /\ Top(th).pc = "blocked"
    /\ OnceCompleted(Top(th).task)
    /\ stack' = SetTop(th, [Top(th) EXCEPT !.pc = "ret"])
    /\ UNCHANGED <<taskVars, runnerVars, ncalls, obs, fan, auxVars>>

\* the dependency the walk of frame f calls next
NextDep(f) == Depends[f.task][f.i]

\* a walk that stops calling dependencies once the context is done
WalkPendingLive(f) == ~ctx.done /\ f.pc = "walk" /\ f.i <= Len(Depends[f.task])

\* the walk has a dependency left to call
WalkPending(f) == f.pc = "walk" /\ f.i <= Len(Depends[f.task])

\* for _, dep := range t.Depends { output, err := dep.Run(ctx, currInput)
CallDep(th) ==
    /\ HasFrame(th)
    /\ WalkPending(Top(th))
    /\ LET f == Top(th) IN
        /\ stack' = [stack EXCEPT ![th] = Append(@, Frame(NextDep(f), f.cur))]
        /\ obs' = [obs EXCEPT !.depCalls[f.task] =
                      Append(@, [dep |-> NextDep(f), input |-> f.cur,
                                 back |-> FALSE, out |-> Nil, err |-> NoErr]),
                              !.callInputs[NextDep(f)] = @ \cup {f.cur}]
    /\ UNCHANGED <<taskVars, runnerVars, ncalls, fan, auxVars>>

\* return t.Result, t.Err: the pair a Run call on the task of frame f returns
RunResult(f) == [res |-> Result[f.task], err |-> Err[f.task]]

\* obs after the dep.Run call of frame d returned r to the walk of task t
Landed(t, d, r) ==
    [obs EXCEPT !.depCalls[t] =
                    [@ EXCEPT ![Len(@)] = [@ EXCEPT !.back = TRUE, !.out = r.res, !.err = r.err]],
                !.returned[d.task] = @ \cup {r}]

\* a walk that does not look at the error dep.Run returned
DepErrIgnored(r) == FALSE

\* if err != nil, on what dep.Run returned
DepErr(r) == r.err # NoErr

\* a walk that hands nil to every dependency after the first
ThreadedFresh(c, r) == [c EXCEPT !.cur = Nil, !.i = @ + 1]

\* a walk that hands the same currInput to every dependency
ThreadedSameInput(c, r) == [c EXCEPT !.i = @ + 1]

\* currInput = output: the walk of frame c goes on to the next dependency
Threaded(c, r) == [c EXCEPT !.cur = r.res, !.i = @ + 1]

\* dep.Run returned err == nil: currInput = output, next dependency
DepDone(th) ==
    /\ Len(stack[th]) > 1
    /\ Top(th).pc = "ret"
    /\ ~DepErr(RunResult(Top(th)))
    /\ LET r == RunResult(Top(th))
           c == stack[th][Len(stack[th]) - 1]
       IN  /\ stack' = [stack EXCEPT ![th] = Append(Pop(Pop(@)), Threaded(c, r))]
           /\ obs' = Landed(c.task, Top(th), r)
    /\ UNCHANGED <<taskVars, runnerVars, ncalls, fan, auxVars>>

\* a Task without diagnostics
LoggedNothing(log, e, g) == log

\* t.Logger.Log(...) about the error e, called while the guard is in state g
Logged(log, e, g) == Append(log, [err |-> e, guard |-> g])

\* dep.Run returned err != nil: the failure is logged; t.Err = err; return
\* (the closure ends and the guard completes)
DepFailed(th) ==
    /\ Len(stack[th]) > 1
    /\ Top(th).pc = "ret"
    /\ DepErr(RunResult(Top(th)))
    /\ LET r == RunResult(Top(th))
           c == stack[th][Len(stack[th]) - 1]
       IN  /\ stack' = [stack EXCEPT ![th] = Append(Pop(Pop(@)), [c EXCEPT !.pc = "ret"])]
           /\ Err' = [Err EXCEPT ![c.task] = r.err]
           /\ once' = [once EXCEPT ![c.task] = "done"]
           /\ obs' = [Landed(c.task, Top(th), r) EXCEPT
                          !.writes[c.task] = @ + 1,
                          !.logs[c.task] = Logged(@, r.err, once[c.task])]
    /\ UNCHANGED <<cfgVars, Result, runnerVars, ncalls, fan, auxVars>>

\* a closure that goes on to Fn without finishing the loop over t.Depends
WalkOverEarly(f) == f.pc = "walk"

\* the walk is over and the closure is at `var in In`
WalkOver(f) == f.pc = "walk" /\ f.i > Len(Depends[f.task])

\* typedInput, ok := currInput.(In); !ok: the mismatch is logged; t.Err =
\* err; return
TypeMismatch(th) ==
    /\ HasFrame(th)
    /\ WalkOver(Top(th))
    /\ ~InputAccepted(In[Top(th).task], Top(th).cur)
    /\ LET t == Top(th).task IN
        /\ Err' = [Err EXCEPT ![t] = MismatchErr(t, In[t], Top(th).cur.ty)]
        /\ once' = [once EXCEPT ![t] = "done"]
        /\ obs' = [obs EXCEPT !.writes[t] = @ + 1,
                              !.logs[t] = Logged(@, MismatchErr(t, In[t], Top(th).cur.ty),
                                                 once[t])]
        /\ stack' = SetTop(th, [Top(th) EXCEPT !.pc = "ret"])
    /\ UNCHANGED <<cfgVars, Result, runnerVars, ncalls, fan, auxVars>>

\* in = typedInput (or zeroIn); t.Fn(ctx, in) is called
FnStart(th) ==
    /\ HasFrame(th)
    /\ WalkOver(Top(th))
    /\ InputAccepted(In[Top(th).task], Top(th).cur)
    /\ LET t == Top(th).task
           x == TypedInput(In[t], Top(th).cur)
       IN  /\ stack' = SetTop(th, [Top(th) EXCEPT !.pc = "fn", !.cur = x])
           /\ obs' = [obs EXCEPT !.fnArgs[t] = Append(@, x)]
    /\ UNCHANGED <<taskVars, runnerVars, ncalls, fan, auxVars>>

\* whether a user function of mode m succeeds on the input x
Oks(m, x) ==
    CASE m = "never"  -> {TRUE}
      [] m = "always" -> {FALSE}
      [] m = "odd"    -> {x.v % 2 = 0}
      [] OTHER        -> BOOLEAN

\* t.Result, t.Err = t.Fn(ctx, in); the closure ends and the guard completes
FnReturn(th) ==
    /\ HasFrame(th)
    /\ Top(th).pc = "fn"
    /\ \E ok \in Oks(user[Top(th).task], Top(th).cur) :
        LET t == Top(th).task
            r == Fn(t, Top(th).cur, ok)
        IN  /\ Result' = [Result EXCEPT ![t] = r.res]
            /\ Err' = [Err EXCEPT ![t] = r.err]
            /\ once' = [once EXCEPT ![t] = "done"]
            /\ obs' = [obs EXCEPT !.writes[t] = @ + 1, !.fnRets[t] = Append(@, r)]
            /\ stack' = SetTop(th, [Top(th) EXCEPT !.pc = "ret"])
    /\ UNCHANGED <<cfgVars, runnerVars, ncalls, fan, auxVars>>

\* the steps of Task.Run a goroutine takes below its top-level return
TaskStep(th) ==
    \/ OnceEnter(th)
    \/ OnceSkip(th)
    \/ OnceWait(th)
    \/ OnceWake(th)
    \/ CallDep(th)
    \/ DepDone(th)
    \/ DepFailed(th)
    \/ TypeMismatch(th)
    \/ FnStart(th)
    \/ FnReturn(th)

\* ------------------------------------------------------------ Runner
\* func (r *Runner) Add(tasks ...Executable)
Add(t) ==
    /\ rpc = "build"
    /\ Len(Tasks) < NThreads
    /\ Tasks' = Append(Tasks, t)
    /\ UNCHANGED <<taskVars, stack, rpc, wg, errors, rret, nruns, ncalls, obs, fan, auxVars>>

\* the goroutine Runner.Run starts for entry k calls t.Run(ctx, nil)
Worker(k) == IF k <= Len(Tasks) THEN <<Frame(Tasks[k], Nil)>> ELSE <<>>

\* Runner.Run up to wg.Wait(): errors := make(chan error, len(r.Tasks)) and,
\* for each entry, wg.Add(1) and a goroutine
RunnerRun ==
    /\ rpc = "build"
    /\ rpc' = "wait"
    /\ errors' = <<>>
    /\ wg' = Len(Tasks)
    /\ stack' = [th \in Threads |-> Worker(th)]
    /\ obs' = [obs EXCEPT !.callInputs =
                  [t \in TaskIds |-> IF \E k \in 1..Len(Tasks) : Tasks[k] = t
                                     THEN @[t] \cup {Nil} ELSE @[t]]]
    /\ nruns' = nruns + 1
    /\ UNCHANGED <<taskVars, Tasks, rret, ncalls, fan, auxVars>>

\* an unbuffered channel: a send blocks until Run receives, after the barrier
CanSendNone(q) == FALSE

\* a channel made with room for one error
CanSendOne(q) == Len(q) < 1

\* errors <- err blocks while the channel holds cap(errors) = len(r.Tasks)
CanSend(q) == Len(q) < Len(Tasks)

\* a worker that drops the error of its task
SentNothing(q, e) == q

\* if _, err := t.Run(ctx, nil); err != nil { errors <- err }
Sent(q, e) == IF e # NoErr THEN Append(q, e) ELSE q

\* the worker's t.Run returns; errors <- err when it failed; wg.Done()
WorkerDone(th) ==
    /\ rpc = "wait"
    /\ Len(stack[th]) = 1
    /\ Top(th).pc = "ret"
    /\ LET r == RunResult(Top(th)) IN
        /\ r.err # NoErr => CanSend(errors)
        /\ errors' = Sent(errors, r.err)
        /\ obs' = [obs EXCEPT !.returned[Top(th).task] = @ \cup {r},
                              !.topRets[th] = Append(@, r)]
    /\ wg' = wg - 1
    /\ stack' = [stack EXCEPT ![th] = <<>>]
    /\ UNCHANGED <<taskVars, Tasks, rpc, rret, nruns, ncalls, fan, auxVars>>

\* a Run that returns ctx.Err() whenever the context is done
FirstErrorOrCtx(q) == IF ctx.done THEN ctx.err ELSE IF q = <<>> THEN NoErr ELSE Head(q)

\* a drain that keeps the error it read last
LastError(q) == IF q = <<>> THEN NoErr ELSE q[Len(q)]

\* for err := range errors { return err }; return nil
FirstError(q) == IF q = <<>> THEN NoErr ELSE Head(q)

\* a barrier that also opens when the context is done
BarrierOpenOrDone == wg = 0 \/ ctx.done

\* a barrier that opens as soon as one worker is done
BarrierOpenEarly == wg < Len(Tasks) \/ Tasks = <<>>

\* wg.Wait() returns when the counter is zero
BarrierOpen == wg = 0

\* wg.Wait(); close(errors); the first queued error, or nil, is returned
RunnerReturn ==
    /\ rpc = "wait"
    /\ BarrierOpen
    /\ rret' = FirstError(errors)
    /\ rpc' = "returned"
    /\ UNCHANGED <<taskVars, stack, Tasks, wg, errors, nruns, ncalls, obs, fan, auxVars>>

\* runner.Run(ctx) is called again on a Runner whose Run has returned; more
\* entries may be added before
RunnerAgain ==
    /\ rpc = "returned"
    /\ nruns < MaxRuns
    /\ rpc' = "build"
    /\ UNCHANGED <<taskVars, stack, Tasks, wg, errors, rret, nruns, ncalls, obs, fan, auxVars>>

\* NewRunner(): the tasks are submitted to a second Runner
SecondRunner ==
    /\ rpc = "returned"
    /\ nruns < MaxRuns
    /\ rpc' = "build"
    /\ Tasks' = <<>>
    /\ UNCHANGED <<taskVars, stack, wg, errors, rret, nruns, ncalls, obs, fan, auxVars>>

\* ------------------------------------------------------------ direct callers
\* a goroutine calls task.Run(ctx, x), as the tests of Task do; goroutines
\* are interchangeable, so the call is made by the lowest idle one
Call(th, t, x) ==
    /\ rpc = "off"
    /\ stack[th] = <<>>
    /\ \A o \in Threads : o < th => stack[o] # <<>>
    /\ ncalls < MaxCalls
    /\ ncalls' = ncalls + 1
    /\ stack' = [stack EXCEPT ![th] = <<Frame(t, x)>>]
    /\ obs' = [obs EXCEPT !.callInputs[t] = @ \cup {x}]
    /\ UNCHANGED <<taskVars, runnerVars, fan, auxVars>>

\* the call returns (t.Result, t.Err) to the goroutine that made it
CallerReturn(th) ==
    /\ rpc = "off"
    /\ Len(stack[th]) = 1
    /\ Top(th).pc = "ret"
    /\ obs' = [obs EXCEPT !.returned[Top(th).task] = @ \cup {RunResult(Top(th))}]
    /\ stack' = [stack EXCEPT ![th] = <<>>]
    /\ UNCHANGED <<taskVars, runnerVars, ncalls, fan, auxVars>>

\* ------------------------------------------------------------ fan-out
\* FanOutTask[any, int].ToTask(): a Task[[]any, int] without dependencies
\* whose Fn calls Generate, runs one goroutine per generated function and
\* hands their results to FanIn.
Fns == 1..MaxFns

\* the errors of Generate, of sub-operation i and of FanIn
GenErr == [kind |-> "generate", task |-> 0, exp |-> "", got |-> ""]

SubErr(i) == [kind |-> "sub", task |-> i, exp |-> "", got |-> ""]

FanInErr == [kind |-> "fanin", task |-> 0, exp |-> "", got |-> ""]

\* var zeroOut Out
ZeroOut == Zero("int")

\* var zeroIn In
ZeroIn == Zero("any")

\* the inputs task.Run(ctx, x) is given: nil, or a slice
FanInputs == {Nil, Val("slice", 1)}

\* what sub-operation i returns: its own value, or its own error
SubReturns(i) ==
    {[res |-> Val("int", i % ValMod), err |-> NoErr],
     [res |-> ZeroOut, err |-> SubErr(i)]}

RECURSIVE SumSeq(_)
SumSeq(rs) == IF rs = <<>> THEN 0 ELSE Head(rs).v + SumSeq(Tail(rs))

\* what FanIn returns: the sum of the results, or an error, with or without
\* a partial output
FanInReturns(rs) ==
    {[res |-> Val("int", SumSeq(rs) % ValMod), err |-> NoErr],
     [res |-> ZeroOut, err |-> FanInErr],
     [res |-> Val("int", 1), err |-> FanInErr]}

\* a goroutine of the fan-out: "none" (not started), "ready" (started),
\* "fn" (in fn(ctx, zeroIn)), "got" (fn returned, at mu.Lock()), "locked"
\* (holds mu), "stored" (results[i] written), "done" (wg.Done() called)
NoWorker == [pc |-> "none", res |-> ZeroOut, err |-> NoErr]

FanInit ==
    [pc        |-> "idle",
     input     |-> Nil,
     n         |-> 0,
     spawned   |-> 0,
     wg        |-> 0,
     mu        |-> 0,
     firstErr  |-> NoErr,
     results   |-> <<>>,
     worker    |-> [i \in Fns |-> NoWorker],
     out       |-> [res |-> ZeroOut, err |-> NoErr],
     Result    |-> ZeroOut,
     Err       |-> NoErr,
     genArgs   |-> <<>>,
     genRet    |-> <<>>,
     subArgs   |-> [i \in Fns |-> <<>>],
     lockOrder |-> <<>>,
     fanInArgs |-> <<>>,
     fanInRets |-> <<>>,
     returned  |-> <<>>]

\* task.Run(ctx, x) on the Task of ToTask: the guard is entered, there are no
\* dependencies, the input is typed and the function calls f.Generate
FanCall(x) ==
    /\ fan.pc = "idle"
    /\ fan' = [fan EXCEPT !.pc = "generate", !.input = TypedInput("slice", x)]
    /\ UNCHANGED <<coreVars, auxVars>>

\* a function that goes on with the functions Generate returned whatever
\* error came with them
GenFailedNever(e) == FALSE

\* if err != nil, on what f.Generate returned
GenFailed(e) == e # NoErr

\* fns, err := f.Generate(ctx, input); if err != nil { return zeroOut, err };
\* results := make([]Out, len(fns))
GenerateReturn ==
    /\ fan.pc = "generate"
    /\ \E n \in 0..MaxFns, e \in {NoErr, GenErr} :
        fan' = IF GenFailed(e)
               THEN [fan EXCEPT !.pc = "ret",
                                !.out = [res |-> ZeroOut, err |-> e],
                                !.genArgs = Append(@, fan.input),
                                !.genRet = <<[n |-> n, err |-> e]>>]
               ELSE [fan EXCEPT !.pc = "spawn",
                                !.n = n,
                                !.results = [i \in 1..n |-> ZeroOut],
                                !.genArgs = Append(@, fan.input),
                                !.genRet = <<[n |-> n, err |-> e]>>]
    /\ UNCHANGED <<coreVars, auxVars>>

\* for i, fn := range fns { wg.Add(1); go func() {...}() }: one iteration
FanSpawn ==
    /\ fan.pc = "spawn"
    /\ fan.spawned < fan.n
    /\ fan' = [fan EXCEPT !.spawned = @ + 1,
                          !.wg = @ + 1,
                          !.worker[fan.spawned + 1].pc = "ready"]
    /\ UNCHANGED <<coreVars, auxVars>>

\* goroutines that hand the outer input on to the sub-operations
SubInputOuter(x) == x

\* fn(ctx, zeroIn): the argument of a sub-operation, whatever the input x
\* of the function was
SubInput(x) == ZeroIn

\* the goroutine of sub-operation i calls fn(ctx, zeroIn)
SubStart(i) ==
    /\ fan.worker[i].pc = "ready"
    /\ fan' = [fan EXCEPT !.worker[i].pc = "fn",
                          !.subArgs[i] = Append(@, SubInput(fan.input))]
    /\ UNCHANGED <<coreVars, auxVars>>

\* res, err := fn(ctx, zeroIn)
SubReturn(i) ==
    /\ fan.worker[i].pc = "fn"
    /\ \E r \in SubReturns(i) :
        fan' = [fan EXCEPT !.worker[i] = [pc |-> "got", res |-> r.res, err |-> r.err]]
    /\ UNCHANGED <<coreVars, auxVars>>

\* mu.Lock()
SubLock(i) ==
    /\ fan.worker[i].pc = "got"
    /\ fan.mu = 0
    /\ fan' = [fan EXCEPT !.mu = i,
                          !.worker[i].pc = "locked",
                          !.lockOrder = Append(@, i)]
    /\ UNCHANGED <<coreVars, auxVars>>

\* a worker that stores every error it sees
RetainedLast(first, e) == IF e # NoErr THEN e ELSE first

\* if err != nil && firstErr == nil { firstErr = err }
Retained(first, e) == IF e # NoErr /\ first = NoErr THEN e ELSE first

\* goroutines that share the loop variable: every one writes the last slot
StoredAtLast(rs, i, v) == [rs EXCEPT ![Len(rs)] = v]

\* results[i] = res
Stored(rs, i, v) == [rs EXCEPT ![i] = v]

\* the critical section of the goroutine of sub-operation i
SubStore(i) ==
    /\ fan.worker[i].pc = "locked"
    /\ fan' = [fan EXCEPT !.firstErr = Retained(@, fan.worker[i].err),
                          !.results = Stored(@, i, fan.worker[i].res),
                          !.worker[i].pc = "stored"]
    /\ UNCHANGED <<coreVars, auxVars>>

\* the deferred mu.Unlock() and wg.Done()
SubDone(i) ==
    /\ fan.worker[i].pc = "stored"
    /\ fan' = [fan EXCEPT !.mu = 0, !.wg = @ - 1, !.worker[i].pc = "done"]
    /\ UNCHANGED <<coreVars, auxVars>>

\* a barrier that opens when the first goroutine is done
FanBarrierOpenEarly == fan.wg < fan.n \/ fan.n = 0

\* wg.Wait() returns when the counter is zero
FanBarrierOpen == fan.wg = 0

\* a function that calls FanIn whatever the goroutines returned
FanFailedNever(e) == FALSE

\* if firstErr != nil
FanFailed(e) == e # NoErr

\* wg.Wait(); if firstErr != nil { return zeroOut, firstErr }; otherwise
\* f.FanIn(ctx, results) is called
FanJoin ==
    /\ fan.pc = "spawn"
    /\ fan.spawned = fan.n
    /\ FanBarrierOpen
    /\ fan' = IF FanFailed(fan.firstErr)
              THEN [fan EXCEPT !.pc = "ret",
                               !.out = [res |-> ZeroOut, err |-> fan.firstErr]]
              ELSE [fan EXCEPT !.pc = "fanin",
                               !.fanInArgs = Append(@, fan.results)]
    /\ UNCHANGED <<coreVars, auxVars>>

\* a function that returns the zero value whenever FanIn fails
FanInOutcomeZeroed(r) == IF r.err # NoErr THEN [res |-> ZeroOut, err |-> r.err] ELSE r

\* return f.FanIn(ctx, results)
FanInOutcome(r) == r

FanInReturn ==
    /\ fan.pc = "fanin"
    /\ \E r \in FanInReturns(fan.results) :
        fan' = [fan EXCEPT !.pc = "ret",
                           !.out = FanInOutcome(r),
                           !.fanInRets = Append(@, r)]
    /\ UNCHANGED <<coreVars, auxVars>>

\* t.Result, t.Err = t.Fn(ctx, in); return t.Result, t.Err
FanReturn ==
    /\ fan.pc = "ret"
    /\ fan' = [fan EXCEPT !.pc = "done",
                          !.Result = fan.out.res,
                          !.Err = fan.out.err,
                          !.returned = Append(@, fan.out)]
    /\ UNCHANGED <<coreVars, auxVars>>

\* ------------------------------------------------------------ ToTask
\* Two Tasks obtained from one FanOutTask[any, int], next to two plain tasks
FanPair ==
    [Depends |-> << <<>>, <<>>, <<>>, <<>> >>,
     In      |-> << "slice", "slice", "any", "any" >>,
     Out     |-> << "int", "int", "any", "any" >>]

\* the Tasks that wrap the function of ToTask
FanTasks == {1, 2}

\* the inputs their Run is called with: a slice, a string
FanTaskInputs == {Val("slice", 1), Val("str", 1)}

\* the numbers of functions their Generate returns
FanTaskSizes == {0, 2}

\* a ToTask that hands out one Task, built once, at every call
ToTaskShared(k) == 1

\* the k-th call of f.ToTask() returns NewTask("fanout_task", ...): a Task
\* of its own
ToTask(k) == k

\* per Task of ToTask, the calls its function has made: of Generate (with the
\* number of functions and the error Generate returned last), of each
\* sub-operation, of FanIn
FtInit ==
    [t \in FanTasks |->
        [gens   |-> 0,
         n      |-> 0,
         genErr |-> NoErr,
         subs   |-> [i \in Fns |-> 0],
         fanIns |-> 0]]

\* a goroutine calls Run(ctx, x) on the Task the k-th call of ToTask returned
ToTaskCall(th, k, x) ==
    /\ rpc = "off"
    /\ stack[th] = <<>>
    /\ \A o \in Threads : o < th => stack[o] # <<>>
    /\ ncalls < MaxFanCalls
    /\ ncalls' = ncalls + 1
    /\ stack' = [stack EXCEPT ![th] = <<Frame(ToTask(k), x)>>]
    /\ obs' = [obs EXCEPT !.callInputs[ToTask(k)] = @ \cup {x}]
    /\ UNCHANGED <<taskVars, runnerVars, fan, auxVars>>

\* the locals of one activation of the function: results, firstErr, len(fns)
Locals(n) == [results |-> [i \in 1..n |-> ZeroOut], err |-> NoErr, n |-> n]

\* fns, err := f.Generate(ctx, input); if err != nil { return zeroOut, err };
\* results := make([]Out, len(fns))
FtGenerate(th) ==
    /\ HasFrame(th)
    /\ Top(th).pc = "fn"
    /\ \E n \in FanTaskSizes, e \in {NoErr, GenErr} :
        LET t == Top(th).task IN
        /\ ft' = [ft EXCEPT ![t].gens = @ + 1, ![t].n = n, ![t].genErr = e]
        /\ stack' = SetTop(th,
              IF GenFailed(e)
              THEN [Top(th) EXCEPT !.pc = "fnret",
                                   !.cur = [res |-> ZeroOut, err |-> e]]
              ELSE [Top(th) EXCEPT !.pc = "subs", !.i = 0, !.cur = Locals(n)])
    /\ UNCHANGED <<taskVars, runnerVars, ncalls, obs, fan, rt, ctx, afters, user>>

\* the goroutine of the next sub-operation, as a whole: res, err :=
\* fn(ctx, zeroIn), firstErr and results[i] under the lock, wg.Done()
FtSub(th) ==
    /\ HasFrame(th)
    /\ Top(th).pc = "subs"
    /\ Top(th).i < Top(th).cur.n
    /\ LET t == Top(th).task
           i == Top(th).i + 1
       IN  \E r \in SubReturns(i) :
            /\ ft' = [ft EXCEPT ![t].subs[i] = @ + 1]
            /\ stack' = SetTop(th,
                  [Top(th) EXCEPT !.i = i,
                                  !.cur.err = Retained(@, r.err),
                                  !.cur.results = Stored(@, i, r.res)])
    /\ UNCHANGED <<taskVars, runnerVars, ncalls, obs, fan, rt, ctx, afters, user>>

\* wg.Wait(); if firstErr != nil { return zeroOut, firstErr }; otherwise
\* f.FanIn(ctx, results) is called
FtJoin(th) ==
    /\ HasFrame(th)
    /\ Top(th).pc = "subs"
    /\ Top(th).i = Top(th).cur.n
    /\ LET t == Top(th).task IN
        IF FanFailed(Top(th).cur.err)
        THEN /\ stack' = SetTop(th,
                    [Top(th) EXCEPT !.pc = "fnret",
                                    !.cur = [res |-> ZeroOut, err |-> Top(th).cur.err]])
             /\ ft' = ft
        ELSE /\ stack' = SetTop(th, [Top(th) EXCEPT !.pc = "fanin"])
             /\ ft' = [ft EXCEPT ![t].fanIns = @ + 1]
    /\ UNCHANGED <<taskVars, runnerVars, ncalls, obs, fan, rt, ctx, afters, user>>

\* return f.FanIn(ctx, results)
FtFanIn(th) ==
    /\ HasFrame(th)
    /\ Top(th).pc = "fanin"
    /\ \E r \in FanInReturns(Top(th).cur.results) :
        stack' = SetTop(th, [Top(th) EXCEPT !.pc = "fnret", !.cur = FanInOutcome(r)])
    /\ UNCHANGED <<taskVars, runnerVars, ncalls, obs, fan, auxVars>>

\* t.Result, t.Err = t.Fn(ctx, in); the closure ends and the guard completes
FtReturn(th) ==
    /\ HasFrame(th)
    /\ Top(th).pc = "fnret"
    /\ LET t == Top(th).task
           r == Top(th).cur
       IN  /\ Result' = [Result EXCEPT ![t] = r.res]
           /\ Err' = [Err EXCEPT ![t] = r.err]
           /\ once' = [once EXCEPT ![t] = "done"]
           /\ obs' = [obs EXCEPT !.writes[t] = @ + 1, !.fnRets[t] = Append(@, r)]
           /\ stack' = SetTop(th, [Top(th) EXCEPT !.pc = "ret"])
    /\ UNCHANGED <<cfgVars, runnerVars, ncalls, fan, auxVars>>

\* ------------------------------------------------------------ After
\* the tasks After is called on, and the argument lists it is called with:
\* tasks created earlier, so that the graph stays acyclic
AfterTasks == {3, 4}

AfterArgs == {<<1>>, <<2>>, <<1, 2>>, <<2, 1>>}

\* a method that puts the new dependencies in front of the old ones
Prepended(old, ds) == ds \o old

\* append(t.Depends, tasks...)
Appended(old, ds) == old \o ds

\* t.After(ds...), before the first Run: t.Depends = append(t.Depends,
\* tasks...); return t
After(t, ds) ==
    /\ rpc = "off"
    /\ ncalls = 0
    /\ Len(afters) < MaxAfter
    /\ Depends' = [Depends EXCEPT ![t] = Appended(@, ds)]
    /\ afters' = Append(afters, [task |-> t, args |-> ds, ret |-> t])
    /\ UNCHANGED <<In, Out, Result, Err, once, stack, runnerVars, ncalls, obs,
                   fan, rt, ctx, ft, user>>

\* ------------------------------------------------------------ context
\* context.Background(): not done, Err() is nil; `early` tells whether the
\* context was already done when the call it is handed to was made
Background == [done |-> FALSE, err |-> NoErr, early |-> FALSE]

\* no call of Runner.Run, of a Task's Run or of Retry has been made yet
NothingCalled ==
    /\ rpc \in {"build", "off"}
    /\ ncalls = 0
    /\ fan.pc = "idle"
    /\ rt.pc = "idle"

\* ctx.Err() once the context is done: context.Canceled or
\* context.DeadlineExceeded
CtxErrs ==
    {[kind |-> "canceled", task |-> 0, exp |-> "", got |-> ""],
     [kind |-> "deadline", task |-> 0, exp |-> "", got |-> ""]}

\* ------------------------------------------------------------ Retry
\* A time.Duration (an int64 count of nanoseconds) that is zero ("zero"),
\* 2^e ("pow", 0 <= e <= 62) or -2^e ("neg", 0 <= e <= 63).
Dur(k, e) == [k |-> k, e |-> e]

\* a loop that never changes the backoff
Same(d) == d

\* backoff *= 2 in int64: 2^62 * 2 wraps to -2^63, and -2^63 * 2 to 0
Double(d) ==
    CASE d.k = "pow" ->
            IF d.e + 1 <= DurationBits - 2
            THEN Dur("pow", d.e + 1)
            ELSE Dur("neg", DurationBits - 1)
      [] d.k = "neg" ->
            IF d.e + 1 <= DurationBits - 1
            THEN Dur("neg", d.e + 1)
            ELSE Dur("zero", 0)
      [] OTHER -> Dur("zero", 0)

\* a timer that is ready whatever its duration
ElapsedAlways(d) == TRUE

\* time.After(d) with d <= 0 is ready at once
Elapsed(d) == d.k # "pow"

\* the values of initialBackoff: 0, 1ns, 2^62 ns, -1ns
Backoffs ==
    {Dur("zero", 0), Dur("pow", 0), Dur("pow", DurationBits - 2), Dur("neg", 0)}

\* the error the operation returns on its k-th invocation
OpErr(k) == [kind |-> "op", task |-> k, exp |-> "", got |-> ""]

\* rt.outcomes  what each invocation of the operation returned, in order
\* rt.armed     the durations time.After was called with, in order
\* rt.elapsed   how many of these timers were received from
\* rt.cancelAt  the number of invocations made when the context became
\*              done while Retry was blocked in its select, else 0
RetryInit ==
    [pc       |-> "idle",
     retries  |-> 0,
     initial  |-> Dur("zero", 0),
     i        |-> 0,
     backoff  |-> Dur("zero", 0),
     err      |-> NoErr,
     ret      |-> NoErr,
     outcomes |-> <<>>,
     armed    |-> <<>>,
     elapsed  |-> 0,
     cancelAt |-> 0]

\* Retry(ctx, fn, retries, backoff)
RetryCall(n, b) ==
    /\ rt.pc = "idle"
    /\ rt' = [rt EXCEPT !.pc = "loop", !.retries = n, !.initial = b, !.backoff = b]
    /\ UNCHANGED <<coreVars, fan, ctx, restVars>>

\* the values of the argument `retries`, an int: a negative one, and
\* 0..MaxRetries
RetryCounts == -1..MaxRetries

\* a loop that tests its condition after the body: one attempt at least
LoopGoesOnOnce(i, n) == i = 0 \/ i <= n

\* for i := 0; i <= retries; i++
LoopGoesOn(i, n) == i <= n

\* err = fn(ctx): the operation is invoked
RetryAttempt ==
    /\ rt.pc = "loop"
    /\ LoopGoesOn(rt.i, rt.retries)
    /\ rt' = [rt EXCEPT !.pc = "fn"]
    /\ UNCHANGED <<coreVars, fan, ctx, restVars>>

\* a loop that goes on to the select whatever the operation returned
SucceededNever(e) == FALSE

\* if err == nil
Succeeded(e) == e = NoErr

\* the operation returns; if err == nil { return nil }
OpReturn ==
    /\ rt.pc = "fn"
    /\ \E e \in {NoErr, OpErr(Len(rt.outcomes) + 1)} :
        rt' = IF Succeeded(e)
              THEN [rt EXCEPT !.pc = "done", !.err = e, !.ret = NoErr,
                              !.outcomes = Append(@, e)]
              ELSE [rt EXCEPT !.pc = "select", !.err = e,
                              !.outcomes = Append(@, e)]
    /\ UNCHANGED <<coreVars, fan, ctx, restVars>>

\* select { case <-ctx.Done(): ...; case <-time.After(backoff): ... }
\* is entered: the timer is armed and, with neither case ready, Retry blocks
SelectBlocks ==
    /\ rt.pc = "select"
    /\ ~ctx.done
    /\ rt' = [rt EXCEPT !.pc = "wait", !.armed = Append(@, rt.backoff)]
    /\ UNCHANGED <<coreVars, fan, ctx, restVars>>

\* the select is entered with the context done: return ctx.Err()
SelectCtxReady ==
    /\ rt.pc = "select"
    /\ ctx.done
    /\ rt' = [rt EXCEPT !.pc = "done", !.ret = ctx.err,
                        !.armed = Append(@, rt.backoff)]
    /\ UNCHANGED <<coreVars, fan, ctx, restVars>>

\* the select is entered with a timer that is ready at once (backoff <= 0);
\* with the context done as well, either case may be chosen
SelectTimerReady ==
    /\ rt.pc = "select"
    /\ Elapsed(rt.backoff)
    /\ rt' = [rt EXCEPT !.pc = "loop", !.i = @ + 1,
                        !.armed = Append(@, rt.backoff),
                        !.elapsed = @ + 1,
                        !.backoff = Double(@)]
    /\ UNCHANGED <<coreVars, fan, ctx, restVars>>

\* case <-time.After(backoff): backoff *= 2, while Retry is blocked
TimerFires ==
    /\ rt.pc = "wait"
    /\ rt' = [rt EXCEPT !.pc = "loop", !.i = @ + 1,
                        !.elapsed = @ + 1,
                        !.backoff = Double(@)]
    /\ UNCHANGED <<coreVars, fan, ctx, restVars>>

\* a wait that does not listen to the context (time.Sleep(backoff))
InterruptedNever(pc) == FALSE

\* a goroutine blocked in the select is woken by ctx.Done()
Interrupted(pc) == pc = "wait"

\* the context is cancelled or its deadline passes, at any moment before the
\* call under way has returned
Cancel ==
    /\ ~ctx.done
    /\ rt.pc # "done"
    /\ rpc # "returned"
    /\ fan.pc # "done"
    /\ \E e \in CtxErrs : ctx' = [done |-> TRUE, err |-> e, early |-> NothingCalled]
    /\ rt' = IF Interrupted(rt.pc)
             THEN [rt EXCEPT !.pc = "woken", !.cancelAt = Len(rt.outcomes)]
             ELSE rt
    /\ UNCHANGED <<coreVars, fan, restVars>>

\* case <-ctx.Done(): return ctx.Err()
RetryCtxReturn ==
    /\ rt.pc = "woken"
    /\ rt' = [rt EXCEPT !.pc = "done", !.ret = ctx.err]
    /\ UNCHANGED <<coreVars, fan, ctx, restVars>>

\* the loop ends: return err
RetryExhausted ==
    /\ rt.pc = "loop"
    /\ ~LoopGoesOn(rt.i, rt.retries)
    /\ rt' = [rt EXCEPT !.pc = "done", !.ret = rt.err]
    /\ UNCHANGED <<coreVars, fan, ctx, restVars>>

\* ------------------------------------------------------------ cancellation
\* a user function that watches the context: t.Fn returns ctx.Err() once the
\* context is done (select { case <-ctx.Done(): return ..., ctx.Err() })
FnReturnCtx(th) ==
    /\ HasFrame(th)
    /\ Top(th).pc = "fn"
    /\ ctx.done
    /\ LET t == Top(th).task
           r == [res |-> Zero(Out[t]), err |-> ctx.err]
       IN  /\ Result' = [Result EXCEPT ![t] = r.res]
           /\ Err' = [Err EXCEPT ![t] = r.err]
           /\ once' = [once EXCEPT ![t] = "done"]
           /\ obs' = [obs EXCEPT !.writes[t] = @ + 1, !.fnRets[t] = Append(@, r)]
           /\ stack' = SetTop(th, [Top(th) EXCEPT !.pc = "ret"])
    /\ UNCHANGED <<cfgVars, runnerVars, ncalls, fan, auxVars>>

\* a sub-operation that watches the context returns ctx.Err()
SubReturnCtx(i) ==
    /\ fan.worker[i].pc = "fn"
    /\ ctx.done
    /\ fan' = [fan EXCEPT !.worker[i] = [pc |-> "got", res |-> ZeroOut, err |-> ctx.err]]
    /\ UNCHANGED <<coreVars, auxVars>>

\* ------------------------------------------------------------ specifications
\* NewTask: Result is the zero value of Out, Err is nil, the guard is fresh
InitTasks(g) ==
    /\ Depends = g.Depends
    /\ In = g.In
    /\ Out = g.Out
    /\ Result = [t \in TaskIds |-> Zero(g.Out[t])]
    /\ Err = [t \in TaskIds |-> NoErr]
    /\ once = [t \in TaskIds |-> "new"]

\* user functions that fail or not on grounds of their own
Unspecified == [t \in TaskIds |-> "any"]

\* user functions whose outcome is a function of their input
Deterministic == [TaskIds -> {"never", "always", "odd"}]

InitUser(u) ==
    /\ user = u
    /\ stack = [th \in Threads |-> <<>>]
    /\ Tasks = <<>>
    /\ wg = 0
    /\ errors = <<>>
    /\ rret = NoErr
    /\ nruns = 0
    /\ ncalls = 0
    /\ fan = FanInit
    /\ rt = RetryInit
    /\ ctx = Background
    /\ afters = <<>>
    /\ ft = FtInit
    /\ obs = [fnArgs     |-> [t \in TaskIds |-> <<>>],
              fnRets     |-> [t \in TaskIds |-> <<>>],
              walks      |-> [t \in TaskIds |-> 0],
              waits      |-> [t \in TaskIds |-> 0],
              writes     |-> [t \in TaskIds |-> 0],
              depCalls   |-> [t \in TaskIds |-> <<>>],
              returned   |-> [t \in TaskIds |-> {}],
              execInput  |-> [t \in TaskIds |-> <<>>],
              callInputs |-> [t \in TaskIds |-> {}],
              topRets    |-> [th \in Threads |-> <<>>],
              logs       |-> [t \in TaskIds |-> <<>>]]

InitRest == InitUser(Unspecified)

\* NewRunner(): a Runner over a task graph, before Add and Run
Init ==
    /\ \E g \in Graphs : InitTasks(g)
    /\ InitRest
    /\ rpc = "build"

Next ==
    \/ \E t \in TaskIds : Add(t)
    \/ RunnerRun
    \/ \E th \in Threads : TaskStep(th)
    \/ \E th \in Threads : WorkerDone(th)
    \/ RunnerReturn

Spec == Init /\ [][Next]_vars

\* every goroutine that can take a step is scheduled in the end, every user
\* function that was called returns, and Run goes on once its barrier opens
Fairness ==
    /\ \A th \in Threads : WF_vars(TaskStep(th))
    /\ \A th \in Threads : WF_vars(WorkerDone(th))
    /\ WF_vars(RunnerReturn)

SpecLive == Init /\ [][Next]_vars /\ Fairness

\* a Runner over a task graph that After closed into a cycle
InitCycle ==
    /\ \E g \in CycleGraphs : InitTasks(g)
    /\ InitRest
    /\ rpc = "build"

SpecCycle == InitCycle /\ [][Next]_vars

\* a Runner over a task graph whose user functions are deterministic
DetGraphs == {Walk3Typed, Shared, Example, Chain}

InitDet ==
    /\ \E g \in DetGraphs : InitTasks(g)
    /\ \E u \in Deterministic : InitUser(u)
    /\ rpc = "build"

SpecDet == InitDet /\ [][Next]_vars

\* Runners run one after the other over the same task instances
NextRerun ==
    \/ \E t \in TaskIds : Add(t)
    \/ RunnerRun
    \/ \E th \in Threads : TaskStep(th)
    \/ \E th \in Threads : WorkerDone(th)
    \/ RunnerReturn
    \/ RunnerAgain
    \/ SecondRunner

SpecRerun == Init /\ [][NextRerun]_vars

\* a task graph whose tasks are run by direct calls of Task.Run
InitCall ==
    /\ \E g \in Graphs : InitTasks(g)
    /\ InitRest
    /\ rpc = "off"

NextCall ==
    \/ \E th \in Threads, t \in TaskIds, x \in Inputs : Call(th, t, x)
    \/ \E th \in Threads : TaskStep(th)
    \/ \E th \in Threads : CallerReturn(th)

SpecCall == InitCall /\ [][NextCall]_vars

\* one run of the Task of a FanOutTask
InitFan ==
    /\ InitTasks(Independent)
    /\ InitRest
    /\ rpc = "off"

NextFan ==
    \/ \E x \in FanInputs : FanCall(x)
    \/ GenerateReturn
    \/ FanSpawn
    \/ \E i \in Fns : SubStart(i)
    \/ \E i \in Fns : SubReturn(i)
    \/ \E i \in Fns : SubLock(i)
    \/ \E i \in Fns : SubStore(i)
    \/ \E i \in Fns : SubDone(i)
    \/ FanJoin
    \/ FanInReturn
    \/ FanReturn

SpecFan == InitFan /\ [][NextFan]_vars

\* one call of Retry under a context that may become done
InitRetry ==
    /\ InitTasks(Independent)
    /\ InitRest
    /\ rpc = "off"

NextRetry ==
    \/ \E n \in RetryCounts, b \in Backoffs : RetryCall(n, b)
    \/ RetryAttempt
    \/ OpReturn
    \/ SelectBlocks
    \/ SelectCtxReady
    \/ SelectTimerReady
    \/ TimerFires
    \/ Cancel
    \/ RetryCtxReturn
    \/ RetryExhausted

SpecRetry == InitRetry /\ [][NextRetry]_vars

\* tasks created with NewTask, composed with After, then run directly
InitBuild ==
    /\ InitTasks(Independent)
    /\ InitRest
    /\ rpc = "off"

NextBuild ==
    \/ \E t \in AfterTasks, ds \in AfterArgs : After(t, ds)
    \/ \E th \in Threads, t \in AfterTasks, x \in Inputs : Call(th, t, x)
    \/ \E th \in Threads : TaskStep(th)
    \/ \E th \in Threads : CallerReturn(th)

SpecBuild == InitBuild /\ [][NextBuild]_vars

\* the Tasks of two calls of ToTask on one FanOutTask, run by direct calls
InitFanTask ==
    /\ InitTasks(FanPair)
    /\ InitRest
    /\ rpc = "off"

NextFanTask ==
    \/ \E th \in Threads, k \in FanTasks, x \in FanTaskInputs : ToTaskCall(th, k, x)
    \/ \E th \in Threads : OnceEnter(th)
    \/ \E th \in Threads : OnceSkip(th)
    \/ \E th \in Threads : OnceWait(th)
    \/ \E th \in Threads : OnceWake(th)
    \/ \E th \in Threads : TypeMismatch(th)
    \/ \E th \in Threads : FnStart(th)
    \/ \E th \in Threads : FtGenerate(th)
    \/ \E th \in Threads : FtSub(th)
    \/ \E th \in Threads : FtJoin(th)
    \/ \E th \in Threads : FtFanIn(th)
    \/ \E th \in Threads : FtReturn(th)
    \/ \E th \in Threads : CallerReturn(th)

SpecFanTask == InitFanTask /\ [][NextFanTask]_vars

\* the graphs run under a context that may be cancelled
CancelGraphs == {Shared, Walk3Typed}

\* one of: a Runner over a graph, the Task of a FanOutTask, a call of Retry,
\* each under a context that is cancelled at any moment or never
InitCancel ==
    /\ InitRest
    /\ \/ rpc = "build" /\ \E g \in CancelGraphs : InitTasks(g)
       \/ rpc = "off" /\ InitTasks(Independent)

NextCancel ==
    \/ Cancel
    \/ \E t \in TaskIds : Add(t)
    \/ RunnerRun
    \/ \E th \in Threads : TaskStep(th)
    \/ \E th \in Threads : FnReturnCtx(th)
    \/ \E th \in Threads : WorkerDone(th)
    \/ RunnerReturn
    \/ \E x \in FanInputs : rpc = "off" /\ rt.pc = "idle" /\ FanCall(x)
    \/ GenerateReturn
    \/ FanSpawn
    \/ \E i \in Fns : SubStart(i)
    \/ \E i \in Fns : SubReturn(i)
    \/ \E i \in Fns : SubReturnCtx(i)
    \/ \E i \in Fns : SubLock(i)
    \/ \E i \in Fns : SubStore(i)
    \/ \E i \in Fns : SubDone(i)
    \/ FanJoin
    \/ FanInReturn
    \/ FanReturn
    \/ \E n \in RetryCounts, b \in Backoffs :
          rpc = "off" /\ fan.pc = "idle" /\ RetryCall(n, b)
    \/ RetryAttempt
    \/ OpReturn
    \/ SelectBlocks
    \/ SelectCtxReady
    \/ SelectTimerReady
    \/ TimerFires
    \/ RetryCtxReturn
    \/ RetryExhausted

SpecCancel == InitCancel /\ [][NextCancel]_vars

\* ------------------------------------------------------------ properties
\* the cached outcome of task t
Outcome(t) == [res |-> Result[t], err |-> Err[t]]

\* a dependency of t returned an error to the walk of t
DepFailedIn(t) == \E k \in 1..Len(obs.depCalls[t]) : obs.depCalls[t][k].err # NoErr

\* the outcome of t is its own type-mismatch error
OwnMismatch(t) == Err[t].kind = "mismatch" /\ Err[t].task = t

\* every goroutine has returned from its top-level call
AllIdle == \A th \in Threads : stack[th] = <<>>

\* the value of type ty that a walk ending in x hands to Fn
ArgFor(ty, x) == IF x # Nil THEN x ELSE IF ty = "any" THEN Nil ELSE [ty |-> ty, v |-> 0]

\* C1: however many calls of Run a Task receives, concurrently or one after
\* the other, its Fn and its walk over Depends run at most once, exactly once
\* when the guard has completed without a failed dependency or a type
\* mismatch, and every call returns the same (result, err) pair.
C1_RunOnce ==
    \A t \in TaskIds :
        /\ Len(obs.fnArgs[t]) <= 1
        /\ obs.walks[t] <= 1
        /\ once[t] = "done" => obs.walks[t] = 1
        /\ (once[t] = "done" /\ ~DepFailedIn(t) /\ ~OwnMismatch(t))
              => (Len(obs.fnArgs[t]) = 1 /\ Len(obs.fnRets[t]) = 1)
        /\ Cardinality(obs.returned[t]) <= 1

\* two calls with different inputs, the second made while the first ran the
\* closure, have both returned
C1_Witness ==
    \E t \in TaskIds :
        /\ AllIdle
        /\ ncalls = 2
        /\ obs.callInputs[t] = Inputs
        /\ obs.waits[t] = 1
        /\ Len(obs.fnArgs[t]) = 1
        /\ Cardinality(obs.returned[t]) = 1

\* C2: once the guard of a Task has completed, Result and Err never change
\* and nothing writes them: the outcome is written exactly once, and a later
\* call of Run, whatever its input, returns that pair.
C2_OutcomeFrozen ==
    /\ [](\A t \in TaskIds :
            /\ obs.writes[t] <= 1
            /\ once[t] = "done" <=> obs.writes[t] = 1
            /\ once[t] = "done" => obs.returned[t] \subseteq {Outcome(t)})
    /\ [][\A t \in TaskIds :
            once[t] = "done" =>
                /\ once'[t] = "done"
                /\ Result'[t] = Result[t]
                /\ Err'[t] = Err[t]
                /\ obs'.writes[t] = obs.writes[t]]_vars

\* a call with an input other than the one the closure ran with has passed
\* the completed guard without waiting and is about to return
C2_Witness ==
    \E th \in Threads, t \in TaskIds :
        /\ Len(stack[th]) = 1
        /\ Top(th).task = t
        /\ Top(th).pc = "ret"
        /\ once[t] = "done"
        /\ obs.writes[t] = 1
        /\ obs.waits[t] = 0
        /\ obs.execInput[t] # <<stack[th][1].input>>

\* C3: when callers run a fresh Task concurrently with different inputs, the
\* closure runs with the input of one of them, the outcome is what Fn made of
\* that input, and every caller receives it.
C3_SingleFlight ==
    \A t \in TaskIds :
        (Depends[t] = <<>> /\ once[t] = "done") =>
            /\ Len(obs.execInput[t]) = 1
            /\ obs.execInput[t][1] \in obs.callInputs[t]
            /\ obs.returned[t] \subseteq {Outcome(t)}
            /\ ~OwnMismatch(t) =>
                  /\ obs.fnArgs[t] = <<ArgFor(In[t], obs.execInput[t][1])>>
                  /\ obs.fnRets[t] = <<Outcome(t)>>
                  /\ Err[t] = NoErr => Result[t] = FnValue(t, obs.fnArgs[t][1])

\* the caller that passed nil has received what Fn made of the other caller's
\* input
C3_Witness ==
    \E t \in TaskIds :
        /\ AllIdle
        /\ Depends[t] = <<>>
        /\ In[t] = "str"
        /\ obs.callInputs[t] = Inputs
        /\ obs.waits[t] = 1
        /\ obs.execInput[t] = <<Val("str", 1)>>
        /\ obs.returned[t] = {[res |-> Val("str", 2), err |-> NoErr]}
\* the dep.Run call k of the walk of t has returned
Back(t, k) == obs.depCalls[t][k].back

\* what the dep.Run call k of the walk of t returned
Got(t, k) == [res |-> obs.depCalls[t][k].out, err |-> obs.depCalls[t][k].err]

\* the top-level entries of the Runner
Entries == {Tasks[k] : k \in 1..Len(Tasks)}

\* C4: when two top-level Tasks of a Runner list the same dependency, the
\* function of the dependency runs exactly once, no call of its Run gets past
\* the guard before that run has finished (the worker that arrives second
\* waits), and both Tasks observe the one outcome of the dependency.
C4_SharedDependency ==
    \A d \in TaskIds :
        /\ Len(obs.fnArgs[d]) <= 1
        /\ (once[d] = "done" /\ ~DepFailedIn(d) /\ ~OwnMismatch(d)) => Len(obs.fnRets[d]) = 1
        /\ \A th \in Threads : \A k \in 1..Len(stack[th]) :
              (stack[th][k].task = d /\ stack[th][k].pc = "ret") => once[d] = "done"
        /\ \A t \in TaskIds : \A k \in 1..Len(obs.depCalls[t]) :
              (obs.depCalls[t][k].dep = d /\ Back(t, k)) =>
                  (once[d] = "done" /\ Got(t, k) = Outcome(d))

\* two entries share a dependency, one worker has waited in its guard, and
\* both entries have received its single outcome
C4_Witness ==
    \E a, b, d \in TaskIds :
        /\ rpc = "returned"
        /\ Tasks = <<a, b>>
        /\ a # b
        /\ Depends[a] = <<d>>
        /\ Depends[b] = <<d>>
        /\ obs.waits[d] = 1
        /\ Len(obs.fnRets[d]) = 1
        /\ Back(a, 1) /\ Back(b, 1)
        /\ Got(a, 1) = Got(b, 1)

\* C5: the Fn of a Task starts only after the Run of each of its dependencies
\* has returned, which is after the dependency's guard has completed, also
\* when the dependency is resolved by another worker or is itself a top-level
\* entry; and the walk calls dependency i+1 only after dependency i returned.
C5_DependenciesFirst ==
    \A t \in TaskIds :
        /\ Len(obs.depCalls[t]) <= Len(Depends[t])
        /\ \A k \in 1..Len(obs.depCalls[t]) :
              /\ obs.depCalls[t][k].dep = Depends[t][k]
              /\ k < Len(obs.depCalls[t]) => Back(t, k)
              /\ Back(t, k) => once[Depends[t][k]] = "done"
        /\ Len(obs.fnArgs[t]) > 0 =>
              /\ Len(obs.depCalls[t]) = Len(Depends[t])
              /\ \A k \in 1..Len(Depends[t]) :
                    Back(t, k) /\ Got(t, k).err = NoErr /\ once[Depends[t][k]] = "done"

\* a dependency that is also a top-level entry was being run by one worker
\* while the other waited for it, and the dependent Task has run its Fn
C5_Witness ==
    \E t, d \in TaskIds :
        /\ rpc = "returned"
        /\ {t, d} \subseteq Entries
        /\ Len(Depends[t]) = 2
        /\ Depends[t][1] = d
        /\ obs.waits[d] = 1
        /\ Len(obs.fnArgs[t]) = 1

\* C6: the first dependency whose Run returns an error aborts the walk: no
\* later dependency is called by this Task, its Fn is not invoked, exactly
\* that error becomes its Err and is what Run returns, and Result stays the
\* zero value (with Depends = [D1, D2, D3] and D2 failing, D3 is not called).
C6_ShortCircuit ==
    \A t \in TaskIds : \A k \in 1..Len(obs.depCalls[t]) :
        (Back(t, k) /\ Got(t, k).err # NoErr) =>
            /\ Len(obs.depCalls[t]) = k
            /\ obs.fnArgs[t] = <<>>
            /\ once[t] = "done"
            /\ Err[t] = Got(t, k).err
            /\ Result[t] = ArgFor(Out[t], Nil)
            /\ obs.returned[t] \subseteq {[res |-> ArgFor(Out[t], Nil), err |-> Got(t, k).err]}

\* a Task with three dependencies has returned the error of the second; the
\* third was never run
C6_Witness ==
    \E t \in TaskIds :
        /\ AllIdle
        /\ Depends[t] = <<1, 2, 3>>
        /\ Len(obs.depCalls[t]) = 2
        /\ Got(t, 1).err = NoErr
        /\ Got(t, 2).err = FnErr(2)
        /\ once[3] = "new"
        /\ obs.returned[t] = {[res |-> ArgFor(Out[t], Nil), err |-> FnErr(2)]}

\* the calls of the walk of t thread the input: the first dependency gets the
\* input of the call that runs the closure, each later one the output of its
\* predecessor
WalkThreads(t) ==
    \A k \in 1..Len(obs.depCalls[t]) :
        obs.depCalls[t][k].input =
            IF k = 1 THEN obs.execInput[t][1] ELSE obs.depCalls[t][k - 1].out

\* the output of the last dependency of t
LastOut(t) == obs.depCalls[t][Len(Depends[t])].out

\* C7 as stated: with dependencies D1..Dn that all succeed, D1 is called with
\* the input x, each later dependency with the output of its predecessor, and
\* Fn receives the output of Dn.
C7_FnGetsLastOutput ==
    \A t \in TaskIds :
        Depends[t] # <<>> =>
            /\ WalkThreads(t)
            /\ Len(obs.fnArgs[t]) > 0 => obs.fnArgs[t][1] = LastOut(t)

\* C7 as amended: D1 is called with x, each later dependency with the output
\* of its predecessor, and Fn receives the output of Dn when that output is
\* not nil, the zero value of In when it is nil.
C7_FnGetsTypedLastOutput ==
    \A t \in TaskIds :
        Depends[t] # <<>> =>
            /\ WalkThreads(t)
            /\ Len(obs.fnArgs[t]) > 0 => obs.fnArgs[t][1] = ArgFor(In[t], LastOut(t))

\* a Task with three dependencies was called with a string; its Fn received
\* the output of the third dependency, three steps away from that string
C7_Witness ==
    \E t \in TaskIds :
        /\ Len(Depends[t]) = 3
        /\ obs.execInput[t] = <<Val("str", 1)>>
        /\ Len(obs.fnArgs[t]) = 1
        /\ obs.fnArgs[t][1] = LastOut(t)
        /\ obs.fnArgs[t][1] = Val("int", 4 % ValMod)
        /\ once[t] = "done"

\* the value that reaches the type check of t: the caller's input without
\* dependencies, else the output of the last dependency
FlowIn(t) == IF Depends[t] = <<>> THEN obs.execInput[t][1] ELSE LastOut(t)

\* the guard of t has completed and no dependency failed
WalkSucceeded(t) ==
    /\ once[t] = "done"
    /\ Len(obs.depCalls[t]) = Len(Depends[t])
    /\ ~DepFailedIn(t)

\* C8: when the value that flows into the Fn of a Task is not nil and not of
\* the Task's input type, Run returns a type-mismatch error naming both
\* types, Err holds it, and Fn is not invoked.
C8_TypeMismatch ==
    \A t \in TaskIds :
        (WalkSucceeded(t) /\ FlowIn(t) # Nil /\ In[t] # "any" /\ FlowIn(t).ty # In[t]) =>
            /\ Err[t] = [kind |-> "mismatch", task |-> t, exp |-> In[t], got |-> FlowIn(t).ty]
            /\ obs.fnArgs[t] = <<>>
            /\ Result[t] = ArgFor(Out[t], Nil)
            /\ obs.returned[t] \subseteq {Outcome(t)}

\* a Task taking an int was called with a string and has returned the
\* mismatch error
C8_Witness ==
    \E t \in TaskIds :
        /\ AllIdle
        /\ Depends[t] = <<>>
        /\ In[t] = "int"
        /\ obs.execInput[t] = <<Val("str", 1)>>
        /\ obs.fnArgs[t] = <<>>
        /\ obs.returned[t] =
              {[res |-> ArgFor(Out[t], Nil),
                err |-> [kind |-> "mismatch", task |-> t, exp |-> "int", got |-> "str"]]}

\* C9: without dependencies, Fn receives the caller's input unchanged when
\* it is a non-nil value of the input type, and the zero value of the input
\* type, with no mismatch error, when the input is nil.
C9_ZeroDependencies ==
    \A t \in TaskIds :
        (Depends[t] = <<>> /\ obs.execInput[t] # <<>>) =>
            LET x == obs.execInput[t][1] IN
            /\ Len(obs.fnArgs[t]) > 0 => obs.fnArgs[t][1] = ArgFor(In[t], x)
            /\ (once[t] = "done" /\ (x = Nil \/ In[t] = "any" \/ x.ty = In[t])) =>
                  (Len(obs.fnArgs[t]) = 1 /\ ~OwnMismatch(t))

\* a Task taking an int was called with nil; its Fn received 0 and succeeded
C9_Witness ==
    \E t \in TaskIds :
        /\ Depends[t] = <<>>
        /\ In[t] = "int"
        /\ obs.execInput[t] = <<Nil>>
        /\ obs.fnArgs[t] = <<Val("int", 0)>>
        /\ once[t] = "done"
        /\ Err[t] = NoErr

\* what the worker of entry k got from its call of t.Run
WorkerErr(k) == obs.topRets[k][1].err

\* C10: Runner.Run returns nil exactly when the Run of every top-level entry
\* returned no error (so also without entries); otherwise it returns one
\* error, which is the error one of the failing entries returned.
C10_RunnerError ==
    rpc = "returned" =>
        /\ \A k \in 1..Len(Tasks) : Len(obs.topRets[k]) = 1
        /\ rret = NoErr <=> \A k \in 1..Len(Tasks) : WorkerErr(k) = NoErr
        /\ rret # NoErr => \E k \in 1..Len(Tasks) : WorkerErr(k) = rret
        /\ Tasks = <<>> => rret = NoErr

\* two entries failed with different errors and Runner.Run returned the
\* error of the second entry
C10_Witness ==
    /\ rpc = "returned"
    /\ Len(Tasks) = 2
    /\ WorkerErr(1) # NoErr
    /\ WorkerErr(2) # NoErr
    /\ WorkerErr(1) # WorkerErr(2)
    /\ rret = WorkerErr(2)
C12_StopsOnFirstError ==
    (rpc = "wait" /\ errors # <<>>) => ENABLED RunnerReturn

\* C13: the error Runner.Run returns is the one drained first from the error
\* queue; the queue holds the errors of the failing workers in the order in
\* which they were sent, an error once queued keeps its place, and so the
\* error returned is that of the worker that sent first, whatever the order
\* in which the entries were added.
C13_FirstQueuedError ==
    /\ [](/\ \A i \in 1..Len(errors) :
                \E k \in 1..Len(Tasks) :
                    Len(obs.topRets[k]) = 1 /\ errors[i] = WorkerErr(k)
          /\ Len(errors) =
                Cardinality({k \in 1..Len(Tasks) :
                                Len(obs.topRets[k]) = 1 /\ obs.topRets[k][1].err # NoErr})
          /\ rpc = "returned" => rret = (IF errors = <<>> THEN NoErr ELSE errors[1]))
    /\ [][rpc = "wait" =>
            /\ Len(errors') >= Len(errors)
            /\ \A i \in 1..Len(errors) : errors'[i] = errors[i]]_vars

\* two entries failed with different errors; the entry added last sent its
\* error first, and that error is the one returned
C13_Witness ==
    /\ rpc = "returned"
    /\ Len(Tasks) = 2
    /\ Len(errors) = 2
    /\ errors[1] # errors[2]
    /\ errors = <<WorkerErr(2), WorkerErr(1)>>
    /\ rret = errors[1]
\* C14: a Task that has run is never executed again: when it is submitted to
\* a second Runner, or Runner.Run is called again on the same Runner, its Run
\* returns the cached outcome, its Fn and its dependency walk are not invoked
\* again and the outcome is not rewritten, for failed outcomes as well.
C14_NeverReExecuted ==
    /\ [](\A t \in TaskIds :
            /\ Len(obs.fnArgs[t]) <= 1
            /\ obs.walks[t] <= 1
            /\ obs.writes[t] <= 1
            /\ Len(obs.depCalls[t]) <= Len(Depends[t])
            /\ once[t] = "done" => obs.returned[t] \subseteq {Outcome(t)})
    /\ [][\A t \in TaskIds :
            once[t] = "done" =>
                /\ once'[t] = "done"
                /\ Result'[t] = Result[t]
                /\ Err'[t] = Err[t]
                /\ obs'.fnArgs[t] = obs.fnArgs[t]
                /\ obs'.depCalls[t] = obs.depCalls[t]
                /\ obs'.walks[t] = obs.walks[t]]_vars

\* a Task whose dependency failed is the entry of a second Runner.Run, which
\* has returned the same cached error; neither Fn was invoked again
C14_Witness ==
    \E t \in TaskIds :
        /\ nruns = 2
        /\ rpc = "returned"
        /\ Tasks = <<t>>
        /\ Len(Depends[t]) = 1
        /\ DepFailedIn(t)
        /\ obs.topRets[1] = <<Outcome(t), Outcome(t)>>
        /\ rret = Err[t]
        /\ Len(obs.fnArgs[Depends[t][1]]) = 1
        /\ obs.fnArgs[t] = <<>>
        /\ obs.walks[t] = 1
\* Generate has returned its functions without an error
GenOk == fan.genRet # <<>> /\ fan.genRet[1].err = NoErr

\* the function of the fan-out Task has returned
FanFinished == fan.pc \in {"ret", "done"}

\* fn of sub-operation i has returned
SubReturned(i) == fan.worker[i].pc \in {"got", "locked", "stored", "done"}

\* the sub-operations that have returned an error
Failing == {i \in Fns : SubReturned(i) /\ fan.worker[i].err # NoErr}

\* what Run of the fan-out Task returned is the outcome the Task caches
FanCached(r) ==
    fan.pc = "done" =>
        (fan.Result = r.res /\ fan.Err = r.err /\ fan.returned = <<r>>)

\* C15: when Generate and every sub-operation succeed, FanIn is called
\* exactly once, with a sequence as long as the list Generate returned
\* (empty when that list is empty) whose element i is the result of the i-th
\* sub-operation, whatever the order in which the sub-operations completed.
C15_FanInOrdered ==
    /\ Len(fan.fanInArgs) <= 1
    /\ fan.fanInArgs # <<>> =>
          /\ Len(fan.fanInArgs[1]) = fan.genRet[1].n
          /\ \A i \in 1..Len(fan.fanInArgs[1]) :
                /\ fan.fanInArgs[1][i] = fan.worker[i].res
                /\ fan.fanInArgs[1][i] = Val("int", i % ValMod)
    /\ (FanFinished /\ GenOk /\ Failing = {}) => Len(fan.fanInArgs) = 1

\* three sub-operations completed in the order 2, 3, 1 and FanIn received
\* their results in the order 1, 2, 3
C15_Witness ==
    /\ fan.pc = "done"
    /\ fan.lockOrder = <<2, 3, 1>>
    /\ fan.fanInArgs = << <<Val("int", 1), Val("int", 2), Val("int", 3)>> >>

\* C16: if at least one sub-operation returns an error, the fan-out Task
\* returns the error of one of the failing sub-operations (that error when
\* only one fails) and the zero output value, and FanIn is never invoked.
C16_SubOperationError ==
    (FanFinished /\ GenOk /\ Failing # {}) =>
        /\ fan.out.err \in {SubErr(i) : i \in Failing}
        /\ fan.out.res = ZeroOut
        /\ fan.fanInArgs = <<>>
        /\ FanCached(fan.out)

\* of three sub-operations the middle one alone failed, and Run returned the
\* zero value with its error
C16_Witness ==
    /\ fan.pc = "done"
    /\ fan.n = 3
    /\ Failing = {2}
    /\ fan.returned = <<[res |-> ZeroOut, err |-> SubErr(2)]>>
    /\ fan.fanInArgs = <<>>

\* C17: if Generate returns an error, the outcome of the fan-out Task is
\* exactly that error, no sub-operation is started and FanIn is never
\* invoked.
C17_GenerateError ==
    (fan.genRet # <<>> /\ fan.genRet[1].err # NoErr) =>
        /\ FanFinished
        /\ fan.out = [res |-> ZeroOut, err |-> fan.genRet[1].err]
        /\ FanCached(fan.out)
        /\ fan.spawned = 0
        /\ \A i \in Fns : fan.worker[i].pc = "none" /\ fan.subArgs[i] = <<>>
        /\ fan.fanInArgs = <<>>

\* Generate returned two functions together with an error; Run returned the
\* error and neither function was started
C17_Witness ==
    /\ fan.pc = "done"
    /\ fan.genRet = <<[n |-> 2, err |-> GenErr]>>
    /\ fan.returned = <<[res |-> ZeroOut, err |-> GenErr]>>

\* sub-operation i has been through its critical section with an error
StoredFailure(i) ==
    fan.worker[i].pc \in {"stored", "done"} /\ fan.worker[i].err # NoErr

\* the failing sub-operations that have been through the critical section,
\* in the order in which they acquired the lock
StoredFailures == SelectSeq(fan.lockOrder, StoredFailure)

\* C18: when several sub-operations fail, the retained error is that of the
\* failing worker that acquired the lock first; once set it is never
\* overwritten, and it is the error the fan-out Task returns, so the choice
\* follows the completion order and not the index.
C18_FirstErrorRetained ==
    /\ [](/\ fan.firstErr =
                IF StoredFailures = <<>> THEN NoErr ELSE SubErr(Head(StoredFailures))
          /\ (FanFinished /\ GenOk /\ fan.firstErr # NoErr) => fan.out.err = fan.firstErr)
    /\ [][fan.firstErr # NoErr => fan'.firstErr = fan.firstErr]_vars

\* sub-operations 1 and 3 failed, 3 took the lock before 1, and Run returned
\* the error of 3
C18_Witness ==
    /\ fan.pc = "done"
    /\ Failing = {1, 3}
    /\ fan.lockOrder = <<3, 2, 1>>
    /\ fan.returned = <<[res |-> ZeroOut, err |-> SubErr(3)]>>

C20_FanInOutcome ==
    /\ Len(fan.fanInRets) <= 1
    /\ fan.fanInRets # <<>> =>
          /\ FanFinished
          /\ fan.out = fan.fanInRets[1]
          /\ FanCached(fan.fanInRets[1])

\* FanIn returned an error together with a non-zero output, and both are
\* what the Task holds and what Run returned
C20_Witness ==
    /\ fan.pc = "done"
    /\ fan.fanInRets = <<[res |-> Val("int", 1), err |-> FanInErr]>>
    /\ fan.Result = Val("int", 1)
    /\ fan.Err = FanInErr
    /\ fan.returned = fan.fanInRets

\* ------------------------------------------------------------ Retry claims
\* the invocations of the operation that returned an error
Failures == {k \in 1..Len(rt.outcomes) : rt.outcomes[k] # NoErr}

\* the operation failed on each of its retries+1 invocations
AllFailed ==
    /\ rt.outcomes # <<>>
    /\ Len(rt.outcomes) = rt.retries + 1
    /\ Failures = 1..Len(rt.outcomes)

\* C22: when the operation has failed on each of its maxRetries+1
\* invocations, Retry has invoked it exactly maxRetries+1 times and returns
\* the error of the last invocation, not a context error.
C22_Exhaustion ==
    /\ Len(rt.outcomes) <= rt.retries + 1
    /\ (rt.pc = "done" /\ AllFailed) =>
          /\ rt.ret = rt.outcomes[rt.retries + 1]
          /\ rt.ret \notin CtxErrs

\* C23: an invocation of the operation that returns nil is the last one, it
\* is at most the (maxRetries+1)-th, and Retry has returned nil with it: the
\* operation is not invoked again after a success.
C23_Success ==
    \A k \in 1..Len(rt.outcomes) :
        rt.outcomes[k] = NoErr =>
            /\ k = Len(rt.outcomes)
            /\ k <= rt.retries + 1
            /\ Failures = 1..(k - 1)
            /\ rt.pc = "done"
            /\ rt.ret = NoErr

\* two failures, two elapsed waits, and a success on the third and last
\* allowed invocation
C23_Witness ==
    /\ rt.pc = "done"
    /\ rt.retries = 2
    /\ Len(rt.outcomes) = 3
    /\ Failures = {1, 2}
    /\ rt.elapsed = 2
    /\ rt.ret = NoErr

\* C24: when the context becomes done while Retry is blocked in a backoff
\* wait, Retry is woken by it, returns the context's error as its next step
\* and does not invoke the operation again, whatever retries remain.
C24_CancelInBackoff ==
    [][/\ (rt.pc = "wait" /\ ctx'.done) =>
              /\ rt'.pc = "woken"
              /\ rt'.outcomes = rt.outcomes
       /\ rt.pc = "woken" =>
              /\ rt'.pc = "done"
              /\ rt'.ret = ctx.err
              /\ rt'.ret \in CtxErrs
              /\ rt'.outcomes = rt.outcomes]_vars

\* cancelled in the wait after the first of three allowed invocations
C24_Witness ==
    /\ rt.pc = "done"
    /\ rt.retries = 2
    /\ rt.cancelAt = 1
    /\ Len(rt.outcomes) = 1
    /\ rt.armed = <<Dur("pow", 0)>>
    /\ rt.elapsed = 0
    /\ rt.ret \in CtxErrs

\* C25: with maxRetries = 0 Retry makes one attempt and waits on nothing:
\* after the failed invocation it arms no timer, does not enter the select,
\* and returns the operation's error.
C25_ZeroRetries ==
    (rt.pc # "idle" /\ rt.retries = 0) =>
        /\ Len(rt.outcomes) <= 1
        /\ rt.armed = <<>>
        /\ rt.pc \notin {"select", "wait", "woken"}
        /\ (rt.pc = "done" /\ Failures = {1}) => rt.ret = rt.outcomes[1]

\* d * 2^j as a number, without a width
Scaled(d, j) == IF d.k = "zero" THEN d ELSE Dur(d.k, d.e + j)

\* a number 0, 2^e or -2^e reduced to int64 in two's complement
Wrap(d) ==
    CASE d.k = "pow" /\ d.e <= DurationBits - 2 -> d
      [] d.k = "pow" /\ d.e = DurationBits - 1 -> Dur("neg", DurationBits - 1)
      [] d.k = "neg" /\ d.e <= DurationBits - 1 -> d
      [] OTHER -> Dur("zero", 0)

\* C26 as stated: the backoff waited after the k-th failed attempt is
\* initialBackoff * 2^(k-1), for every number of attempts.
C26_BackoffDoubles ==
    /\ Len(rt.armed) <= Cardinality(Failures)
    /\ \A k \in 1..Len(rt.armed) : rt.armed[k] = Scaled(rt.initial, k - 1)

\* C26: the backoff waited after the k-th failed attempt is
\* initialBackoff * 2^(k-1) reduced to the 64 bits of a time.Duration; it is
\* the product itself whenever the product fits.
C26_BackoffDoublesWrapped ==
    /\ Len(rt.armed) <= Cardinality(Failures)
    /\ \A k \in 1..Len(rt.armed) :
          rt.armed[k] = Wrap(Scaled(rt.initial, k - 1))

\* three failures from an initial backoff of 2^62 ns: the waits are 2^62,
\* then -2^63, then 0
C26_Witness ==
    /\ rt.initial = Dur("pow", DurationBits - 2)
    /\ Failures = {1, 2, 3}
    /\ rt.armed = <<Dur("pow", DurationBits - 2),
                    Dur("neg", DurationBits - 1),
                    Dur("zero", 0)>>

\* ------------------------------------------------------------ After claims
RECURSIVE Accumulated(_, _)
\* the arguments of the After calls of log made on task t, concatenated in
\* the order of the calls
Accumulated(log, t) ==
    IF log = <<>>
    THEN <<>>
    ELSE LET last == log[Len(log)] IN
         Accumulated(Pop(log), t) \o (IF last.task = t THEN last.args ELSE <<>>)

\* C29: After appends its arguments, in order, to the end of the Task's
\* Depends and keeps what earlier calls added; it returns the Task it was
\* called on and changes no other field of that Task nor any other Task; Run
\* walks the dependencies in the order of the accumulated list.
C29_AfterAppends ==
    /\ [](\A t \in TaskIds :
            /\ Depends[t] = Accumulated(afters, t)
            /\ Len(obs.depCalls[t]) <= Len(Depends[t])
            /\ \A k \in 1..Len(obs.depCalls[t]) :
                  obs.depCalls[t][k].dep = Accumulated(afters, t)[k])
    /\ [][afters' # afters =>
            LET c == afters'[Len(afters')] IN
            /\ Pop(afters') = afters
            /\ c.ret = c.task
            /\ Depends'[c.task] = Depends[c.task] \o c.args
            /\ \A t \in TaskIds \ {c.task} : Depends'[t] = Depends[t]
            /\ UNCHANGED <<In, Out, Result, Err, once>>]_vars

\* task4.After(1, 2).After(2, 1), then a Run of task 4 that has walked the
\* four dependencies in that order
C29_Witness ==
    /\ afters = <<[task |-> 4, args |-> <<1, 2>>, ret |-> 4],
                  [task |-> 4, args |-> <<2, 1>>, ret |-> 4]>>
    /\ Depends[4] = <<1, 2, 2, 1>>
    /\ Len(obs.depCalls[4]) = 4
    /\ \A k \in 1..4 : Back(4, k)

\* ------------------------------------------------------------ error queue
\* the entries whose worker has finished with an error
FailedEntries ==
    {k \in 1..Len(Tasks) : obs.topRets[k] # <<>> /\ WorkerErr(k) # NoErr}

\* the worker th holds the error its t.Run returned and is about to send it
Sending(th) ==
    /\ rpc = "wait"
    /\ Len(stack[th]) = 1
    /\ Top(th).pc = "ret"
    /\ RunResult(Top(th)).err # NoErr

\* C30: the error queue of Runner.Run never holds more errors than there are
\* top-level entries; a worker that has an error to send finds room for it;
\* the queue holds one error per failed worker, none is dropped; and errors
\* are sent only while Run waits in its barrier, before the queue is closed.
C30_ErrorQueue ==
    /\ [](/\ Len(errors) <= Len(Tasks)
          /\ \A th \in Threads : Sending(th) => CanSend(errors)
          /\ Len(errors) = Cardinality(FailedEntries)
          /\ \A k \in FailedEntries :
                \E j \in 1..Len(errors) : errors[j] = WorkerErr(k))
    /\ [][Len(errors') > Len(errors) =>
            /\ rpc = "wait" /\ rpc' = "wait"
            /\ wg > 0
            /\ Len(errors') = Len(errors) + 1]_vars

\* two entries, both failed with their own error: the queue is full when
\* Run reads it
C30_Witness ==
    /\ rpc = "returned"
    /\ Len(Tasks) = 2
    /\ Len(errors) = 2
    /\ errors[1] # errors[2]
    /\ FailedEntries = {1, 2}

\* ------------------------------------------------------------ ToTask claims
\* the calls of ToTask whose Task has had its function invoked
Invoked == {k \in FanTasks : obs.fnArgs[ToTask(k)] # <<>>}

\* a goroutine is in the function of a Task and has not called Generate yet
BeforeGenerate == \E th \in Threads : HasFrame(th) /\ Top(th).pc = "fn"

\* the calls of Generate made by the functions of all the Tasks together
GenCalls == ft[1].gens + ft[2].gens

\* C21: each call of ToTask returns a Task of its own. Generate has been
\* called once for every Task whose function was invoked, so twice when two
\* Tasks of the same FanOutTask are run; and however often one Task is run,
\* its function calls Generate, each sub-operation and FanIn at most once,
\* each generated sub-operation exactly once when Generate succeeded, and
\* every Run returns the one cached outcome.
C21_FreshTaskPerToTask ==
    /\ ~BeforeGenerate => GenCalls = Cardinality(Invoked)
    /\ \A t \in FanTasks :
          /\ Len(obs.fnArgs[t]) <= 1
          /\ ft[t].gens <= 1
          /\ ft[t].fanIns <= 1
          /\ \A i \in Fns : ft[t].subs[i] <= 1
          /\ Cardinality(obs.returned[t]) <= 1
          /\ obs.returned[t] \subseteq {Outcome(t)}
          /\ (once[t] = "done" /\ ft[t].gens = 1 /\ ft[t].genErr = NoErr) =>
                \A i \in Fns : ft[t].subs[i] = (IF i <= ft[t].n THEN 1 ELSE 0)

\* three calls: two on the first Task, one of which waited in the guard, and
\* one on the second; each Task called Generate once, both ran two
\* sub-operations, and the two cached outcomes differ
C21_Witness ==
    /\ AllIdle
    /\ ncalls = 3
    /\ obs.waits[1] = 1
    /\ Invoked = {1, 2}
    /\ ft[1].gens = 1 /\ ft[2].gens = 1
    /\ ft[1].n = 2 /\ ft[2].n = 2
    /\ ft[1].fanIns = 1
    /\ ft[2].fanIns = 0
    /\ obs.returned[1] = {Outcome(1)}
    /\ obs.returned[2] = {Outcome(2)}
    /\ Err[1] = NoErr
    /\ Err[2] = SubErr(2)

\* ------------------------------------------------------------ cancellation claims
\* the goroutines waiting in the guard of a task another goroutine is running
GuardWaiters == {th \in Threads : HasFrame(th) /\ Top(th).pc = "blocked"}

\* the worker goroutines of Runner.Run that have not finished
InFlight == {th \in Threads : stack[th] # <<>>}

\* the function of the fan-out has started all its goroutines and is at
\* wg.Wait()
AtFanBarrier == fan.pc = "spawn" /\ fan.spawned = fan.n

\* the goroutines of the fan-out that have not finished
FanInFlight == {i \in 1..fan.n : fan.worker[i].pc # "done"}

\* C27 as stated: once the context is done, every blocked component can go
\* on at once: a goroutine waiting in a run-once guard, Runner.Run in its
\* barrier, the fan-out in its barrier, Retry in its backoff wait.
C27_CancelUnblocks ==
    ctx.done =>
        /\ \A th \in GuardWaiters : ENABLED OnceWake(th)
        /\ rpc = "wait" => ENABLED RunnerReturn
        /\ AtFanBarrier => ENABLED FanJoin
        /\ rt.pc # "wait"

\* C27: once the context is done, Retry is no longer in its backoff wait: it
\* was woken and its next step returns the context's error. The other
\* suspension points do not listen to the context: a goroutine waiting in a
\* run-once guard goes on exactly when the closure has returned, Runner.Run
\* exactly when no worker is in flight, the fan-out exactly when none of its
\* goroutines is.
C27_CancelUnblocksRetryOnly ==
    /\ [](ctx.done =>
            /\ \A th \in GuardWaiters :
                  (ENABLED OnceWake(th)) <=> (once[Top(th).task] = "done")
            /\ rpc = "wait" => ((ENABLED RunnerReturn) <=> (InFlight = {}))
            /\ AtFanBarrier => ((ENABLED FanJoin) <=> (FanInFlight = {}))
            /\ rt.pc # "wait")
    /\ [][/\ (rt.pc = "wait" /\ ctx'.done) => rt'.pc = "woken"
          /\ rt.pc = "woken" => (rt'.pc = "done" /\ rt'.ret = ctx.err)]_vars

\* the context is done while Runner.Run waits in its barrier, one worker
\* waits in the guard of the shared dependency and the other is inside the
\* dependency's Fn
C27_Witness ==
    /\ ctx.done
    /\ rpc = "wait"
    /\ Cardinality(GuardWaiters) = 1
    /\ \E th \in Threads : Len(stack[th]) = 2 /\ Top(th).pc = "fn"
    /\ ~ENABLED RunnerReturn

\* C28 as stated: when the context is done before Task.Run, Runner.Run or the
\* Task of a fan-out returns, the error returned is the context's error.
C28_CancelledYieldsCtxError ==
    ctx.done =>
        /\ \A th \in Threads :
              (Len(stack[th]) = 1 /\ Top(th).pc = "ret") =>
                  RunResult(Top(th)).err \in CtxErrs
        /\ rpc = "returned" => rret \in CtxErrs
        /\ fan.pc = "done" => fan.Err \in CtxErrs

\* the errors the user functions have returned: the Fn of the tasks and the
\* sub-operations of the fan-out
UserErrs ==
    {obs.fnRets[t][j].err : <<t, j>> \in
        {p \in TaskIds \X (1..NThreads) : p[2] <= Len(obs.fnRets[p[1]])}}
    \cup {fan.worker[i].err : i \in Fns}

\* C28: Task.Run, Runner.Run and the Task of a fan-out return the context's
\* error only when a user function returned it to them; with the context
\* done, Runner.Run still returns the first queued error, or nil.
C28_CtxErrorOnlyFromUserFunction ==
    /\ \A t \in TaskIds : Err[t] \in CtxErrs => Err[t] \in UserErrs
    /\ rpc = "returned" =>
          /\ rret \in CtxErrs => rret \in UserErrs
          /\ rret = (IF errors = <<>> THEN NoErr ELSE errors[1])
    /\ fan.Err \in CtxErrs => fan.Err \in UserErrs
    /\ fan.pc = "done" =>
          fan.Err \in {GenErr, FanInErr, NoErr} \cup {fan.worker[i].err : i \in Fns}

\* the context was cancelled while a Runner ran two entries: one entry's Fn
\* returned the context's error, which Run returned; the other entry
\* succeeded
C28_Witness ==
    /\ ctx.done
    /\ rpc = "returned"
    /\ Len(Tasks) = 2
    /\ rret \in CtxErrs
    /\ \E k \in 1..2 : WorkerErr(k) = NoErr

\* ------------------------------------------------------------ fan-out input
\* C31: Generate is called with the input the function of the wrapping Task
\* received, and every sub-operation is called with the zero value of its
\* input type, whatever that outer input was.
C31_OnlyGenerateGetsInput ==
    /\ fan.genArgs \in {<<>>, <<fan.input>>}
    /\ fan.genRet # <<>> => fan.genArgs = <<fan.input>>
    /\ \A i \in Fns : \A j \in 1..Len(fan.subArgs[i]) : fan.subArgs[i][j] = ZeroIn

\* the Task was run with a slice: Generate received the slice and returned
\* two sub-operations, which were both called with the zero input
C31_Witness ==
    /\ fan.pc = "done"
    /\ fan.input = Val("slice", 1)
    /\ fan.genArgs = <<Val("slice", 1)>>
    /\ fan.n = 2
    /\ fan.subArgs[1] = <<ZeroIn>>
    /\ fan.subArgs[2] = <<ZeroIn>>
    /\ fan.Err = NoErr

\* ------------------------------------------------------------ cooperative cancellation
\* C32: the steps of Task.Run, Runner.Run and the fan-out function do not
\* depend on the context: with the context done, Run still starts its
\* workers, a walk still calls its next dependency, Fn is still called and
\* left to return, Generate and the sub-operations are still called; and
\* when the context was done before the call and no user function returned
\* its error, every entry has been run and no context error comes out.
C32_EngineIgnoresContext ==
    /\ ctx.done =>
          /\ rpc = "build" => ENABLED RunnerRun
          /\ \A th \in Threads : HasFrame(th) =>
                LET f == Top(th) IN
                /\ (f.pc = "call" /\ once[f.task] = "new") => ENABLED OnceEnter(th)
                /\ (f.pc = "walk" /\ f.i <= Len(Depends[f.task])) => ENABLED CallDep(th)
                /\ (f.pc = "walk" /\ f.i > Len(Depends[f.task])) =>
                      ENABLED (FnStart(th) \/ TypeMismatch(th))
                /\ f.pc = "fn" => ENABLED FnReturn(th)
          /\ fan.pc = "generate" => ENABLED GenerateReturn
          /\ (fan.pc = "spawn" /\ fan.spawned < fan.n) => ENABLED FanSpawn
          /\ \A i \in Fns :
                /\ fan.worker[i].pc = "ready" => ENABLED SubStart(i)
                /\ fan.worker[i].pc = "fn" => ENABLED SubReturn(i)
    /\ (ctx.early /\ UserErrs \cap CtxErrs = {}) =>
          /\ \A t \in TaskIds : Err[t] \notin CtxErrs
          /\ rpc = "returned" =>
                /\ rret \notin CtxErrs
                /\ \A k \in 1..Len(Tasks) :
                      /\ once[Tasks[k]] = "done"
                      /\ Depends[Tasks[k]] = <<>> => Len(obs.fnArgs[Tasks[k]]) = 1
                      /\ Depends[Tasks[k]] # <<>> => obs.depCalls[Tasks[k]] # <<>>
          /\ fan.pc = "done" =>
                /\ fan.Err \notin CtxErrs
                /\ fan.genArgs = <<fan.input>>
                /\ GenOk => \A i \in 1..fan.n : fan.subArgs[i] = <<ZeroIn>>

\* the context was cancelled before Runner.Run was called; both entries
\* walked the shared dependency, every Fn was called and succeeded, and Run
\* returned nil
C32_Witness ==
    /\ ctx.early
    /\ rpc = "returned"
    /\ rret = NoErr
    /\ Tasks = <<2, 3>>
    /\ Depends[2] = <<1>>
    /\ \A t \in {1, 2, 3} : Len(obs.fnArgs[t]) = 1 /\ Err[t] = NoErr

\* ------------------------------------------------------------ Retry, more
\* Retry was called with a context that was already done and with a
\* positive backoff, and has returned; the operation fails when invoked
CancelledCallOver ==
    /\ ctx.early
    /\ rt.initial.k = "pow"
    /\ rt.pc = "done"
    /\ NoErr \notin {rt.outcomes[k] : k \in 1..Len(rt.outcomes)}

C39_NegativeRetries ==
    rt.retries < 0 =>
        /\ rt.outcomes = <<>>
        /\ rt.armed = <<>>
        /\ rt.pc \in {"loop", "done"}
        /\ rt.pc = "done" => rt.ret = NoErr

\* Retry(ctx, fn, -1, 1ns) has returned nil without an invocation
C39_Witness ==
    /\ rt.pc = "done"
    /\ rt.retries = -1
    /\ rt.initial = Dur("pow", 0)
    /\ rt.outcomes = <<>>
    /\ rt.ret = NoErr

\* ------------------------------------------------------------ diagnostics
\* C34: a Task calls its Logger at most once, while its guard is still
\* running; when the guard has completed, a message has been logged exactly
\* when a dependency failed or the input had the wrong type, that is exactly
\* when Fn was not invoked, whether Fn succeeded or failed; and the error
\* logged is the error the Task has cached, with the zero Result.
C34_Diagnostics ==
    \A t \in TaskIds :
        /\ Len(obs.logs[t]) <= 1
        /\ \A k \in 1..Len(obs.logs[t]) : obs.logs[t][k].guard = "running"
        /\ obs.fnArgs[t] # <<>> => obs.logs[t] = <<>>
        /\ once[t] = "done" =>
              /\ obs.logs[t] # <<>> <=> (DepFailedIn(t) \/ OwnMismatch(t))
              /\ obs.logs[t] # <<>> <=> obs.fnArgs[t] = <<>>
              /\ obs.logs[t] # <<>> =>
                    /\ obs.logs[t][1].err = Err[t]
                    /\ Result[t] = Zero(Out[t])
              /\ obs.fnRets[t] # <<>> => Outcome(t) = obs.fnRets[t][1]

\* the Fn of the first dependency failed, without a message; the dependent
\* Task logged the failure of its dependency once and cached that error
C34_Witness ==
    /\ Depends[4] = <<1, 2, 3>>
    /\ once[4] = "done"
    /\ obs.fnRets[1] = <<[res |-> Zero(Out[1]), err |-> FnErr(1)]>>
    /\ obs.logs[1] = <<>>
    /\ obs.logs[4] = <<[err |-> FnErr(1), guard |-> "running"]>>
    /\ Err[4] = FnErr(1)
    /\ obs.fnArgs[4] = <<>>

\* ------------------------------------------------------------ entry and dependency
\* thread th enters the guard of the task of its top frame in this step
Entering(th) ==
    /\ HasFrame(th)
    /\ Top(th).pc = "call"
    /\ Len(stack'[th]) = Len(stack[th])
    /\ stack'[th][Len(stack[th])].pc = "walk"

\* the input of the Run call that is the top frame of th: nil for the call
\* of a Runner worker; for a call made by a walk, the walk's current input,
\* which past the first dependency is the preceding dependency's output
CallInput(th) ==
    IF Len(stack[th]) = 1
    THEN Nil
    ELSE LET p == stack[th][Len(stack[th]) - 1] IN
         IF p.i > 1 THEN obs.depCalls[p.task][p.i - 1].out ELSE p.input

\* C35: the closure of a Task runs with the input of whichever Run call
\* enters its guard first: nil when that is the call of its own Runner
\* worker, the preceding dependency's output when it is the call made by the
\* walk of a dependent; the Fn of a Task without dependencies receives that
\* input, or the zero value of In when it is nil.
C35_InputDependsOnInterleaving ==
    /\ [](\A t \in TaskIds :
            (Depends[t] = <<>> /\ obs.fnArgs[t] # <<>>) =>
                obs.fnArgs[t] = <<ArgFor(In[t], obs.execInput[t][1])>>)
    /\ [][\A th \in Threads :
            Entering(th) =>
                obs.execInput'[Top(th).task] =
                    Append(obs.execInput[Top(th).task], CallInput(th))]_vars

\* runner.Add(task2, task3) with task3.After(task1, task2): the walk of task3
\* reached task2 before the worker of task2 did, and the Fn of task2 received
\* the output of task1 instead of nil
C35_Witness ==
    /\ rpc = "returned"
    /\ Tasks = <<2, 3>>
    /\ Depends[3] = <<1, 2>>
    /\ Result[1] # Nil
    /\ obs.execInput[2] = <<Result[1]>>
    /\ obs.fnArgs[2] = <<Result[1]>>
    /\ Nil \in obs.callInputs[2]

\* ------------------------------------------------------------ termination
\* C36: over an acyclic graph whose user functions return, a Runner.Run that
\* was called returns in the end, whatever entries share dependencies and
\* whichever tasks fail: no worker stays blocked on a guard or on the queue.
C36_RunnerReturns == (rpc = "wait") ~> (rpc = "returned")

\* Run has returned an error after a worker waited in the guard of the
\* shared dependency, whose Fn failed
C36_Witness ==
    /\ rpc = "returned"
    /\ Tasks = <<2, 3>>
    /\ Depends[2] = <<1>> /\ Depends[3] = <<1>>
    /\ obs.waits[1] = 1
    /\ Err[1] = FnErr(1)
    /\ rret = FnErr(1)
    /\ AllIdle

\* ------------------------------------------------------------ cycles
\* the tasks a walk of t calls Run on: for _, dep := range t.Depends
DepSet(t) == {Depends[t][k] : k \in 1..Len(Depends[t])}

RECURSIVE Closure(_, _)
Closure(S, n) ==
    IF n = 0 THEN S ELSE Closure(S \cup UNION {DepSet(u) : u \in S}, n - 1)

\* the tasks the nested walks below t can call Run on
Reachable(t) == Closure(DepSet(t), Cardinality(TaskIds))

\* t lists itself in Depends, directly or through other tasks
OnCycle(t) == t \in Reachable(t)

\* the dependency graph of t contains a cycle
ReachesCycle(t) == OnCycle(t) \/ \E u \in Reachable(t) : OnCycle(u)

\* the goroutine th has called Run on a task whose closure it is itself
\* running further down its stack
Reentered(th) ==
    /\ HasFrame(th)
    /\ Top(th).pc = "blocked"
    /\ \E k \in 1..(Len(stack[th]) - 1) : stack[th][k].task = Top(th).task

\* C37 as stated: no Run call on a task whose dependency graph contains a
\* cycle ever returns, and a Runner.Run that was given such a task never
\* returns.
C37_CycleNeverReturns ==
    /\ \A t \in TaskIds : ReachesCycle(t) => obs.returned[t] = {}
    /\ rpc = "returned" => \A k \in 1..Len(Tasks) : ~ReachesCycle(Tasks[k])

\* C37: a Run call on a task whose dependency graph contains a cycle returns
\* only the failure of a task outside every cycle, which a walk ran into
\* before it closed the cycle; a Runner.Run given such a task returns only
\* with such a failure in hand; and a goroutine that has re-entered a guard
\* it is itself running stays where it is, the guard never completing.
C37_CycleBlocksUnlessDepFails ==
    /\ [](\A t \in TaskIds : ReachesCycle(t) =>
            \A r \in obs.returned[t] :
                r.err # NoErr /\ ~ReachesCycle(r.err.task))
    /\ [](rpc = "returned" =>
            \A k \in 1..Len(Tasks) : ReachesCycle(Tasks[k]) =>
                rret # NoErr /\ ~ReachesCycle(rret.task))
    /\ [](\A t \in TaskIds : OnCycle(t) /\ once[t] = "done" =>
            Err[t] # NoErr /\ ~ReachesCycle(Err[t].task))
    /\ [][\A th \in Threads : Reentered(th) =>
            /\ stack'[th] = stack[th]
            /\ once'[Top(th).task] = "running"
            /\ rpc' = rpc]_vars

\* the only worker of a Runner has walked from a task into the two-task
\* cycle below it and waits on the guard it holds itself: nothing can move
C37_Witness ==
    /\ rpc = "wait"
    /\ Tasks = <<4>>
    /\ Depends[1] = <<2>> /\ Depends[2] = <<1>> /\ Depends[4] = <<1>>
    /\ Len(stack[1]) = 4
    /\ Reentered(1)
    /\ Top(1).task = 1
    /\ once[1] = "running" /\ once[2] = "running" /\ once[4] = "running"
    /\ ~ENABLED Next

\* ------------------------------------------------------------ determinism
\* in how many ways Run is called on t: as an entry of the Runner, and from
\* the Depends lists of the graph
Ways(t) ==
    Cardinality({k \in 1..Len(Tasks) : Tasks[k] = t})
  + Cardinality({p \in TaskIds \X (1..Cardinality(TaskIds)) :
                    p[2] <= Len(Depends[p[1]]) /\ Depends[p[1]][p[2]] = t})

\* every task is a top-level entry or appears once in one Depends list
OneWay == \A t \in TaskIds : Ways(t) = 1

\* tasks as NewTask leaves them
Fresh == [t \in TaskIds |-> [res |-> Zero(Out[t]), err |-> NoErr, done |-> FALSE]]

\* the outcome the closure of t writes once its walk ended with currInput cur
Closed(S, t, cur) ==
    IF ~InputAccepted(In[t], cur)
    THEN [S EXCEPT ![t] = [res |-> S[t].res,
                           err |-> MismatchErr(t, In[t], cur.ty), done |-> TRUE]]
    ELSE LET x == TypedInput(In[t], cur)
             r == Fn(t, x, CHOOSE ok \in Oks(user[t], x) : TRUE)
         IN  [S EXCEPT ![t] = [res |-> r.res, err |-> r.err, done |-> TRUE]]

RECURSIVE RunSeq(_, _, _)
RECURSIVE WalkSeq(_, _, _, _)
\* the loop over t.Depends from its k-th entry on, run by a single goroutine
WalkSeq(S, t, k, cur) ==
    IF k > Len(Depends[t])
    THEN Closed(S, t, cur)
    ELSE LET d == Depends[t][k]
             S1 == RunSeq(S, d, cur)
         IN  IF S1[d].err # NoErr
             THEN [S1 EXCEPT ![t] = [res |-> S1[t].res, err |-> S1[d].err,
                                     done |-> TRUE]]
             ELSE WalkSeq(S1, t, k + 1, S1[d].res)

\* t.Run(ctx, x) run to its end by a single goroutine
RunSeq(S, t, x) == IF S[t].done THEN S ELSE WalkSeq(S, t, 1, x)

RECURSIVE RunAll(_, _)
\* the entries of the Runner run one after the other, each with nil
RunAll(S, k) ==
    IF k > Len(Tasks) THEN S ELSE RunAll(RunSeq(S, Tasks[k], Nil), k + 1)

\* C38: when every task is reached in exactly one way and the user functions
\* are deterministic, the cached (Result, Err) of every task after Runner.Run
\* is the one a run of the entries one after the other leaves: a function of
\* the graph, the entries and the user functions, hence the same in every
\* interleaving of the workers.
C38_OutcomeIndependentOfInterleaving ==
    (rpc = "returned" /\ OneWay) =>
        \A t \in TaskIds :
            /\ Result[t] = RunAll(Fresh, 1)[t].res
            /\ Err[t] = RunAll(Fresh, 1)[t].err
            /\ (once[t] = "done") = RunAll(Fresh, 1)[t].done

\* task3.After(task1, task2) and a failing entry were run side by side:
\* task1 took nil and succeeded, task2 took its output, of odd payload, and
\* failed, and task3 kept that failure without running its function
C38_Witness ==
    /\ rpc = "returned"
    /\ OneWay
    /\ Tasks = <<4, 3>>
    /\ Depends[3] = <<1, 2>>
    /\ user[4] = "always" /\ user[1] = "odd" /\ user[2] = "odd"
    /\ Err[4] = FnErr(4)
    /\ Err[1] = NoErr
    /\ obs.fnArgs[2] = <<Result[1]>>
    /\ Err[2] = FnErr(2)
    /\ Err[3] = FnErr(2)
    /\ obs.fnArgs[3] = <<>>

====
